---------------------------- MODULE Spec2Model ----------------------------
(***************************************************************************)
(* A model of the spectral-ops engine: the magnitude operators of          *)
(* operations.js (FFTOperations) and, of AudioProcessor, the transform     *)
(* kernel (fft, ifft), the analysis / alignment / phase / resynthesis      *)
(* pipeline of process(), and the WAV export.                              *)
(*                                                                         *)
(* Numbers.  The program computes in IEEE floating point.  The model       *)
(* computes exactly in the field Q(sqrt 3): a number is a record           *)
(* [n, s, d] standing for (n + s * sqrt(3)) / d in lowest terms, d > 0;    *)
(* sqrt(3) is what the sines and cosines of multiples of pi / 6 need.      *)
(* Rounding is therefore not modelled; every statement below is about the  *)
(* real-number value of the expression the code evaluates.  A phase is a   *)
(* rational multiple of pi (the record holds the multiple).                *)
(***************************************************************************)
EXTENDS Integers, Sequences, FiniteSets, TLC

VARIABLES
    \* FFTOperations (operations.js), exercised directly
    magA, magB,        \* the two magnitude arrays handed to an operator
    call,              \* the last call: "none", "operator" (a direct call),
                       \* "apply", "setAudioA", "setAudioB" or "process"; on
                       \* the page, "loadAudioFile" or "processAudio"
    operation,         \* the operator / selector of that call
    result,            \* what that call produced
    logged,            \* FFTOperations._logged ("undefined", "false", "true")
    \* AudioProcessor (the singleton audioProcessor)
    audioBufferA,      \* [loaded, data]: null, or the samples of channel 0
    audioBufferB,
    framesA, framesB,  \* this.framesA / this.framesB
    outputFrames,      \* this.outputFrames
    outputBuffer,      \* this.outputBuffer: [isNull, length, data]
    lastRun,           \* arguments of the last process() that got past its guard
    outcome,           \* how the last process() ended
    idxTrace,          \* (indexA, indexB) of every iteration of its frame loop
    writes,            \* per output frame, the positions its resynthesis added to
    progress,          \* the percentages the last process() handed to its callback
    calls,             \* number of calls made on the processor so far
    \* performSTFT exercised on its own
    stft,              \* [L, N, O, state, starts, reads]
    \* fft / ifft exercised on their own
    xform,             \* [x, state, spectrum, real, imag, error]
    \* exportToWAV exercised on its own
    wav,               \* [numberOfChannels, sampleRate, length, channels, state,
                       \*  bytes]
    \* performIFFT exercised on its own
    spectrum,          \* [magnitude, phase, state, real, imag, signal]
    \* fft followed statement by statement
    fftRun,            \* [n, real, imag, pc, i, j, k, len, swaps, indices]
    \* App (the page controller that owns the processor)
    audioA, audioB,    \* this.audioA / this.audioB: the decoded buffer, or null
    appOutputBuffer,   \* this.outputBuffer of App
    progressText,      \* the percentages written to progressText by the last
                       \* processAudio, in order
    alerted,           \* the text of the last alert of the page
    currentSource,     \* this.currentSource: 0 (null) or the number of a source
    currentPlayingType,\* this.currentPlayingType: "null", "A", "B" or "output"
    sources,           \* the buffer sources created so far, in order:
                       \* [type, state], state "playing", "stopped" (stop()
                       \* called, 'ended' not yet delivered), "finished" (played
                       \* to its end, 'ended' not yet delivered) or "closed"
    fileNameA,         \* this.fileNameA.textContent as written by a load ("" while
    fileNameB,         \* none has written it)
    loads,             \* the calls of App.loadAudioFile made so far, in order:
                       \* [file, type, pc, pending], pc the await the call is
                       \* suspended at, "done" or "failed", pending the earlier
                       \* calls still running when this one was made
    timers             \* the loads waiting in yieldToUI for their setTimeout(0)
                       \* callback, in the order the timers were set

opsVars == <<magA, magB, call, operation, result>>
procVars == <<audioBufferA, audioBufferB, framesA, framesB, outputFrames,
              outputBuffer, lastRun, outcome, idxTrace, writes, progress, calls>>
vars == <<magA, magB, call, operation, result, logged, audioBufferA,
          audioBufferB, framesA, framesB, outputFrames, outputBuffer, lastRun,
          outcome, idxTrace, writes, progress, calls, stft, xform, wav,
          fftRun, spectrum, audioA, audioB, appOutputBuffer, progressText, alerted,
          currentSource, currentPlayingType, sources, fileNameA, fileNameB,
          loads, timers>>
pureVars == <<stft, xform, wav, fftRun, spectrum>>
playVars == <<currentSource, currentPlayingType, sources>>
nameVars == <<fileNameA, fileNameB>>
loadVars == <<loads, timers>>
appVars == <<audioA, audioB, appOutputBuffer, progressText, alerted,
             currentSource, currentPlayingType, sources, fileNameA, fileNameB,
             loads, timers>>

-----------------------------------------------------------------------------
(* Bounds of the model *)

MaxBins == 2       \* longest magnitude array drawn for the operators
MaxSignal == 12    \* longest signal handed to performSTFT on its own
MaxCalls == 3      \* calls (loads and process()) made on the processor in one behaviour
MaxTransform == 4  \* longest array handed to fft / ifft on their own
MaxWavFrames == 2  \* most sample frames of a buffer handed to exportToWAV
MaxLog2 == 4       \* fft is followed on arrays of up to 2^MaxLog2 elements
MaxHalf == 4       \* longest half-spectrum handed to performIFFT on its own
MaxSilent == 4     \* longest all-zero signal handed to process()
MaxLoads == 2      \* calls of App.loadAudioFile made on the page
MaxSources == 3    \* buffer sources created by togglePlay in one behaviour

-----------------------------------------------------------------------------
(* Exact arithmetic standing for the program's floating point *)

RECURSIVE GCD(_, _)
GCD(a, b) == IF b = 0 THEN a ELSE GCD(b, a % b)

IAbs(x) == IF x < 0 THEN -x ELSE x

\* What an arithmetic operation yields when a value is missing: the read of
\* a typed array outside its bounds is undefined, and undefined in arithmetic
\* is NaN.  NaN is absorbing and every comparison with it is false.
NaN == [n |-> 0, s |-> 0, d |-> 0]

\* The number (n + s * sqrt(3)) / d in lowest terms with d > 0
Surd(n, s, d) ==
    IF d = 0 THEN NaN
    ELSE LET sg == IF d < 0 THEN -1 ELSE 1
             g == GCD(GCD(IAbs(n), IAbs(s)), IAbs(d))
         IN  [n |-> (sg * n) \div g, s |-> (sg * s) \div g, d |-> (sg * d) \div g]

Rat(n, d) == Surd(n, 0, d)

R(k) == [n |-> k, s |-> 0, d |-> 1]
Zero == R(0)

\* -1, 0 or 1: the sign of n + s * sqrt(3)
Sign(x) ==
    LET sn == IF x.n > 0 THEN 1 ELSE IF x.n < 0 THEN -1 ELSE 0
        ss == IF x.s > 0 THEN 1 ELSE IF x.s < 0 THEN -1 ELSE 0
    IN  IF ss = 0 THEN sn
        ELSE IF sn = 0 \/ sn = ss THEN ss
        ELSE IF x.n * x.n > 3 * x.s * x.s THEN sn ELSE ss

RAdd(x, y) == Surd(x.n * y.d + y.n * x.d, x.s * y.d + y.s * x.d, x.d * y.d)
RNeg(x) == [n |-> -x.n, s |-> -x.s, d |-> x.d]
RSub(x, y) == RAdd(x, RNeg(y))
RMul(x, y) == Surd(x.n * y.n + 3 * x.s * y.s, x.n * y.s + x.s * y.n, x.d * y.d)
\* x / y: x times the reciprocal d * (n - s*sqrt(3)) / (n*n - 3*s*s) of y
RDiv(x, y) ==
    RMul(x, Surd(y.d * y.n, -(y.d * y.s), y.n * y.n - 3 * y.s * y.s))
RLt(x, y) ==
    IF x.s = 0 /\ y.s = 0 THEN x.n * y.d < y.n * x.d
    ELSE x.d # 0 /\ y.d # 0 /\ Sign(RSub(y, x)) > 0
RLe(x, y) ==
    IF x.s = 0 /\ y.s = 0 THEN x.d # 0 /\ y.d # 0 /\ x.n * y.d <= y.n * x.d
    ELSE x.d # 0 /\ y.d # 0 /\ Sign(RSub(y, x)) >= 0
RAbs(x) == IF Sign(x) < 0 THEN RNeg(x) ELSE x    \* Math.abs
\* Math.min and Math.max: NaN when an argument is NaN
RMin(x, y) == IF x.d = 0 \/ y.d = 0 THEN NaN ELSE IF RLt(y, x) THEN y ELSE x
RMax(x, y) == IF x.d = 0 \/ y.d = 0 THEN NaN ELSE IF RLt(x, y) THEN y ELSE x

\* An array given bin by bin, as a sequence value.
Arr(f) == << >> \o f

-----------------------------------------------------------------------------
(* operations.js *)

\* findMax: let max = arr[0] || 0; then a scan over arr[1..].  arr[0] is
\* undefined for an empty array and `|| 0` turns undefined (and 0) into 0.
RECURSIVE findMaxFrom(_, _, _)
findMaxFrom(arr, i, max) ==
    IF i > Len(arr) THEN max
    ELSE findMaxFrom(arr, i + 1, IF RLt(max, arr[i]) THEN arr[i] ELSE max)

findMax(arr) == findMaxFrom(arr, 2, IF Len(arr) = 0 THEN Zero ELSE arr[1])

RECURSIVE findMinFrom(_, _, _)
findMinFrom(arr, i, min) ==
    IF i > Len(arr) THEN min
    ELSE findMinFrom(arr, i + 1, IF RLt(arr[i], min) THEN arr[i] ELSE min)

\* Faulty variant: the running minimum starts at 0 instead of arr[0]
findMinFromZero(arr) == findMinFrom(arr, 1, Zero)

findMin(arr) == findMinFrom(arr, 2, IF Len(arr) = 0 THEN Zero ELSE arr[1])

\* Every operator allocates new Float32Array(magA.length) and fills bin i
\* from magA[i] and magB[i] (arrays are 1-based here, 0-based in the code).
and(a, b) == Arr([i \in 1..Len(a) |-> RMin(a[i], b[i])])

\* Faulty variant: the body of xor pasted into or
orAbsDiff(a, b) == Arr([i \in 1..Len(a) |-> RAbs(RSub(a[i], b[i]))])

or(a, b) == Arr([i \in 1..Len(a) |-> RMax(a[i], b[i])])

xor(a, b) == Arr([i \in 1..Len(a) |-> RAbs(RSub(a[i], b[i]))])

multiply(a, b) == Arr([i \in 1..Len(a) |-> RMul(a[i], b[i])])

average(a, b) == Arr([i \in 1..Len(a) |-> RDiv(RAdd(a[i], b[i]), R(2))])

notA(a, b) ==
    LET maxA == findMax(a)
        minB == findMin(b)
    IN  Arr([i \in 1..Len(a) |-> RAdd(RSub(maxA, a[i]), minB)])

notB(a, b) ==
    LET maxB == findMax(b)
        minA == findMin(a)
    IN  Arr([i \in 1..Len(a) |-> RAdd(RSub(maxB, b[i]), minA)])

\* `maxA || 1`: a zero maximum is replaced by 1 in the divisor only.
OrOne(x) == IF x = Zero THEN R(1) ELSE x

\* Faulty variant: the normalised square is not scaled back by maxA
aSquaredNoRescale(a, b) ==
    LET maxA == findMax(a)
    IN  Arr([i \in 1..Len(a) |->
                LET normalized == RDiv(a[i], OrOne(maxA))
                IN  RMul(normalized, normalized)])

aSquared(a, b) ==
    LET maxA == findMax(a)
    IN  Arr([i \in 1..Len(a) |->
                LET normalized == RDiv(a[i], OrOne(maxA))
                IN  RMul(RMul(normalized, normalized), maxA)])

bSquared(a, b) ==
    LET maxB == findMax(b)
    IN  Arr([i \in 1..Len(a) |->
                LET normalized == RDiv(b[i], OrOne(maxB))
                IN  RMul(RMul(normalized, normalized), maxB)])

\* Faulty variant: the difference is not clamped at 0
subtractNoClamp(a, b) == Arr([i \in 1..Len(a) |-> RSub(a[i], b[i])])

subtract(a, b) == Arr([i \in 1..Len(a) |-> RMax(Zero, RSub(a[i], b[i]))])

\* The ten operators of the FFTOperations object.
Operators ==
    {"and", "or", "xor", "multiply", "average",
     "notA", "notB", "aSquared", "bSquared", "subtract"}

Operator(name, a, b) ==
    CASE name = "and" -> and(a, b)
      [] name = "or" -> or(a, b)
      [] name = "xor" -> xor(a, b)
      [] name = "multiply" -> multiply(a, b)
      [] name = "average" -> average(a, b)
      [] name = "notA" -> notA(a, b)
      [] name = "notB" -> notB(a, b)
      [] name = "aSquared" -> aSquared(a, b)
      [] name = "bSquared" -> bSquared(a, b)
      [] name = "subtract" -> subtract(a, b)

\* What a call can produce: an array, a thrown TypeError, or (for a
\* selector that resolves to an inherited method) a value that is no array.
Array(v) == [kind |-> "array", val |-> v]
Throw == [kind |-> "TypeError", val |-> << >>]
NotArray == [kind |-> "string", val |-> << >>]

\* FFTOperations[operation] for the selectors of the model that are not one
\* of the ten operators.  The object also owns apply and resetLog, owns
\* _logged once apply or resetLog has run, and inherits Object.prototype
\* (toString).  Anything else looks up undefined.
\*   "function"  a callable property;  "true"  the boolean true;
\*   "falsy"     undefined or false.
Lookup(sel, lg) ==
    CASE sel \in Operators \cup {"apply", "resetLog", "toString"} -> "function"
      [] sel = "_logged" -> IF lg = "true" THEN "true" ELSE "falsy"
      [] OTHER -> "falsy"

\* The debugging block of apply (lines 169-175), entered when _logged is
\* falsy: it sets _logged and formats magA[s], magB[s] and result[s] with
\* toFixed, s = floor(magA.length / 4).  toFixed of undefined throws: that
\* is the case for an empty magA and for a result that is no number array.
LogBlock(lg, a, ret) ==
    IF lg = "true" THEN [ret |-> ret, logged |-> lg]
    ELSE IF Len(a) = 0 \/ ret.kind # "array"
         THEN [ret |-> Throw, logged |-> "true"]
         ELSE [ret |-> ret, logged |-> "true"]

\* average(magB, undefined), reached through the selector "apply": the
\* loop reads undefined[i] and throws unless the array is empty.
averageUndefined(a) == IF Len(a) = 0 THEN Array(<< >>) ELSE Throw

\* apply(operation, magA, magB): the returned value and the new _logged.
apply(sel, a, b, lg) ==
    CASE Lookup(sel, lg) = "falsy" ->
            \* console.error; return FFTOperations.average(magA, magB)
            [ret |-> Array(average(a, b)), logged |-> lg]
      [] Lookup(sel, lg) = "true" ->
            \* true(magA, magB) is not a function
            [ret |-> Throw, logged |-> lg]
      [] sel \in Operators ->
            LogBlock(lg, a, Array(Operator(sel, a, b)))
      [] sel = "apply" ->
            \* FFTOperations.apply(magA, magB): the selector is now the array
            \* magA, whose string form names no property; falls back to
            \* average(magB, undefined)
            IF averageUndefined(b).kind = "TypeError"
            THEN [ret |-> Throw, logged |-> lg]
            ELSE LogBlock(lg, a, averageUndefined(b))
      [] sel = "resetLog" ->
            \* resetLog() sets _logged = false and returns undefined
            LogBlock("false", a, NotArray)
      [] sel = "toString" ->
            \* Object.prototype.toString returns "[object Object]"
            LogBlock(lg, a, NotArray)

resetLog == "false"

-----------------------------------------------------------------------------
(* AudioProcessor: window and transform kernel *)

\* cos(2*pi*num/den) and sin(2*pi*num/den) where the angle is a multiple of
\* a quarter turn, which is every angle the kernel meets for sizes <= 4.
\* Other angles have irrational values and are outside the model.
QuarterTurns(num, den) == ((4 * num) \div den) % 4

CosTurn(num, den) ==
    CASE (4 * num) % den = 0 /\ QuarterTurns(num, den) = 0 -> R(1)
      [] (4 * num) % den = 0 /\ QuarterTurns(num, den) = 2 -> R(-1)
      [] (4 * num) % den = 0 /\ QuarterTurns(num, den) \in {1, 3} -> Zero

SinTurn(num, den) ==
    CASE (4 * num) % den = 0 /\ QuarterTurns(num, den) = 1 -> R(1)
      [] (4 * num) % den = 0 /\ QuarterTurns(num, den) = 3 -> R(-1)
      [] (4 * num) % den = 0 /\ QuarterTurns(num, den) \in {0, 2} -> Zero

\* getHannWindow: window[i] = 0.5 * (1 - cos(2*pi*i/size)), i = 0..size-1
getHannWindow(size) ==
    Arr([k \in 1..size |-> RMul(Rat(1, 2), RSub(R(1), CosTurn(k - 1, size)))])

\* The inner while of the bit-reversal loop, then j += k.
RECURSIVE BitRevAdvance(_, _)
BitRevAdvance(j, k) ==
    IF k > 0 /\ k <= j THEN BitRevAdvance(j - k, k \div 2) ELSE j + k

\* arr[i] of a Float32Array: undefined outside the bounds, NaN once used in
\* arithmetic or stored
At(arr, i) == IF i \in 0..(Len(arr) - 1) THEN arr[i + 1] ELSE NaN

\* arr[i] = v: no effect outside the bounds
Put(arr, i, v) == IF i \in 0..(Len(arr) - 1) THEN [arr EXCEPT ![i + 1] = v] ELSE arr

Swap(arr, i, j) == Put(Put(arr, i, At(arr, j)), j, At(arr, i))

\* for (i = 0; i < n; i++) of the bit-reversal permutation; c = [real, imag]
RECURSIVE BitReversal(_, _, _, _)
BitReversal(c, i, j, n) ==
    IF i >= n THEN c
    ELSE LET c2 == IF i < j
                   THEN [real |-> Swap(c.real, i, j), imag |-> Swap(c.imag, i, j)]
                   ELSE c
         IN  BitReversal(c2, i + 1, BitRevAdvance(j, n \div 2), n)

\* for (j = 0; j < len / 2; j++): one butterfly per step, w the running twiddle
RECURSIVE ButterflyBlock(_, _, _, _, _, _)
ButterflyBlock(c, i, j, len, w, wlen) ==
    IF 2 * j >= len THEN c
    ELSE LET u == i + j
             v == u + len \div 2
             tReal == RSub(RMul(At(c.real, v), w.re), RMul(At(c.imag, v), w.im))
             tImag == RAdd(RMul(At(c.real, v), w.im), RMul(At(c.imag, v), w.re))
             c2 == [real |-> Put(Put(c.real, v, RSub(At(c.real, u), tReal)),
                                 u, RAdd(At(c.real, u), tReal)),
                    imag |-> Put(Put(c.imag, v, RSub(At(c.imag, u), tImag)),
                                 u, RAdd(At(c.imag, u), tImag))]
             w2 == [re |-> RSub(RMul(w.re, wlen.re), RMul(w.im, wlen.im)),
                    im |-> RAdd(RMul(w.re, wlen.im), RMul(w.im, wlen.re))]
         IN  ButterflyBlock(c2, i, j + 1, len, w2, wlen)

\* for (i = 0; i < n; i += len)
RECURSIVE ButterflyStage(_, _, _, _, _)
ButterflyStage(c, i, len, n, wlen) ==
    IF i >= n THEN c
    ELSE ButterflyStage(
             ButterflyBlock(c, i, 0, len, [re |-> R(1), im |-> Zero], wlen),
             i + len, len, n, wlen)

\* for (len = 2; len <= n; len <<= 1), angle = -2*pi/len
RECURSIVE ButterflyStages(_, _, _)
ButterflyStages(c, len, n) ==
    IF len > n THEN c
    ELSE ButterflyStages(
             ButterflyStage(c, 0, len, n,
                            [re |-> CosTurn(-1, len), im |-> SinTurn(-1, len)]),
             2 * len, n)

\* fft(real, imag), in place; returns the arrays after the call
fft(c) ==
    LET n == Len(c.real)
    IN  IF n <= 1 THEN c
        ELSE ButterflyStages(BitReversal(c, 0, 0, n), 2, n)

\* Math.sqrt(re*re + im*im) and Math.atan2(im, re) (in units of pi) for a
\* bin on an axis, which is every bin of a size-2 transform of real input.
Magnitude(re, im) ==
    CASE im = Zero -> RAbs(re)
      [] re = Zero -> RAbs(im)

Atan2Pi(im, re) ==
    CASE im = Zero /\ RLe(Zero, re) -> Zero
      [] im = Zero /\ RLt(re, Zero) -> R(1)
      [] re = Zero /\ RLt(Zero, im) -> Rat(1, 2)
      [] re = Zero /\ RLt(im, Zero) -> Rat(-1, 2)

\* performFFT(signal): {magnitude, phase, real, imag}; magnitude and phase
\* hold the first size/2 bins
performFFT(signal) ==
    LET size == Len(signal)
        c == fft([real |-> signal, imag |-> Arr([k \in 1..size |-> Zero])])
        halfSize == size \div 2
    IN  [magnitude |-> Arr([k \in 1..halfSize |->
                               Magnitude(c.real[k], c.imag[k])]),
         phase |-> Arr([k \in 1..halfSize |-> Atan2Pi(c.imag[k], c.real[k])]),
         real |-> c.real,
         imag |-> c.imag]

\* Faulty variant: the division by n is left out
ifftUnscaled(c) ==
    LET n == Len(c.real)
        f == fft([real |-> c.real, imag |-> Arr([k \in 1..n |-> RNeg(c.imag[k])])])
    IN  [real |-> f.real,
         imag |-> Arr([k \in 1..n |-> RNeg(f.imag[k])])]

\* ifft(real, imag), in place: conjugate, forward transform, conjugate and
\* divide by n
ifft(c) ==
    LET n == Len(c.real)
        f == fft([real |-> c.real, imag |-> Arr([k \in 1..n |-> RNeg(c.imag[k])])])
    IN  [real |-> Arr([k \in 1..n |-> RDiv(f.real[k], R(n))]),
         imag |-> Arr([k \in 1..n |-> RDiv(RNeg(f.imag[k]), R(n))])]

\* Math.cos(x) and Math.sin(x) for x = phase * pi, phase a multiple of 1/6:
\* the angle is Twelfths(phase) twelfths of a turn.  Other angles are
\* outside the model.
Twelfths(phase) == ((6 * phase.n) \div phase.d) % 12

CosTwelfth(t) ==
    CASE t = 0 -> R(1)
      [] t \in {1, 11} -> Surd(0, 1, 2)
      [] t \in {2, 10} -> Rat(1, 2)
      [] t \in {3, 9} -> Zero
      [] t \in {4, 8} -> Rat(-1, 2)
      [] t \in {5, 7} -> Surd(0, -1, 2)
      [] t = 6 -> R(-1)

CosPi(phase) ==
    CASE phase.s = 0 /\ (6 * phase.n) % phase.d = 0 -> CosTwelfth(Twelfths(phase))

SinPi(phase) ==
    CASE phase.s = 0 /\ (6 * phase.n) % phase.d = 0 ->
             CosTwelfth((Twelfths(phase) + 9) % 12)

\* Faulty variant: the mirrored bins are copied without the conjugation
fullSpectrumCopied(magnitude, phase) ==
    LET len == Len(magnitude)
        size == len * 2
        re(i) == RMul(magnitude[i + 1], CosPi(phase[i + 1]))
        im(i) == RMul(magnitude[i + 1], SinPi(phase[i + 1]))
    IN  [real |-> Arr([k \in 1..size |->
                         IF k - 1 < len THEN re(k - 1)
                         ELSE IF k - 1 > len THEN re(size - (k - 1))
                         ELSE Zero]),
         imag |-> Arr([k \in 1..size |->
                         IF k - 1 < len THEN im(k - 1)
                         ELSE IF k - 1 > len THEN im(size - (k - 1))
                         ELSE Zero])]

\* The arrays real and imag of performIFFT when ifft is called (lines
\* 183-198): the spectrum is rebuilt in bins 0..len-1 and bins 1..len-1 are
\* mirrored, conjugated, into bins size-1 down to size-len+1.  No statement
\* stores to bin len, which keeps the 0 of the new arrays.
fullSpectrum(magnitude, phase) ==
    LET len == Len(magnitude)
        size == len * 2
        re(i) == RMul(magnitude[i + 1], CosPi(phase[i + 1]))
        im(i) == RMul(magnitude[i + 1], SinPi(phase[i + 1]))
    IN  [real |-> Arr([k \in 1..size |->
                         IF k - 1 < len THEN re(k - 1)
                         ELSE IF k - 1 > len THEN re(size - (k - 1))
                         ELSE Zero]),
         imag |-> Arr([k \in 1..size |->
                         IF k - 1 < len THEN im(k - 1)
                         ELSE IF k - 1 > len THEN RNeg(im(size - (k - 1)))
                         ELSE Zero])]

\* performIFFT(magnitude, phase): the full spectrum is inverted and the real
\* part doubled.
performIFFT(magnitude, phase) ==
    LET c == ifft(fullSpectrum(magnitude, phase))
    IN  Arr([k \in 1..Len(c.real) |-> RMul(c.real[k], R(2))])

-----------------------------------------------------------------------------
(* AudioProcessor.performSTFT *)

\* hopSize = Math.floor(windowSize * (1 - overlapPercent / 100))
hopSize(windowSize, overlapPercent) ==
    (windowSize * (100 - overlapPercent)) \div 100

\* The loop header for (i = 0; i + windowSize <= length; i += hopSize):
\* the values of i for which the body runs.  Only for hop >= 1; with
\* hop <= 0 and length >= windowSize the loop does not end.
\* Faulty variant: the loop condition reads < instead of <=
RECURSIVE FrameStartsStrict(_, _, _, _)
FrameStartsStrict(i, length, windowSize, hop) ==
    IF i + windowSize < length
    THEN << i >> \o FrameStartsStrict(i + hop, length, windowSize, hop)
    ELSE << >>

RECURSIVE FrameStarts(_, _, _, _)
FrameStarts(i, length, windowSize, hop) ==
    IF i + windowSize <= length
    THEN << i >> \o FrameStarts(i + hop, length, windowSize, hop)
    ELSE << >>

\* The indices of channelData the body reads for the frame at offset i:
\* channelData[i + j], j = 0..windowSize-1
FrameReads(i, windowSize) == {i + j : j \in 0..(windowSize - 1)}

\* frame[j] = channelData[i + j] * window[j]
ExtractFrame(channelData, i, windowSize) ==
    LET window == getHannWindow(windowSize)
    IN  Arr([k \in 1..windowSize |-> RMul(channelData[i + k], window[k])])

Terminates(length, windowSize, overlapPercent) ==
    hopSize(windowSize, overlapPercent) >= 1 \/ length < windowSize

performSTFT(channelData, windowSize, overlapPercent) ==
    LET starts == FrameStarts(0, Len(channelData), windowSize,
                              hopSize(windowSize, overlapPercent))
    IN  Arr([k \in 1..Len(starts) |->
                performFFT(ExtractFrame(channelData, starts[k], windowSize))])

-----------------------------------------------------------------------------
(* AudioProcessor.combinePhases, process, resynthesize *)

\* Faulty variant: mode 'average' takes the plain mean of the two phases
combinePhasesUnweighted(phaseA, phaseB, mA, mB, mode) ==
    CASE mode = "a" -> phaseA
      [] mode = "b" -> phaseB
      [] mode = "average" ->
            Arr([k \in 1..Len(phaseA) |-> RDiv(RAdd(phaseA[k], phaseB[k]), R(2))])
      [] OTHER -> phaseA

\* Faulty variant: every mode returns phaseA
combinePhasesAlwaysA(phaseA, phaseB, mA, mB, mode) == phaseA

\* combinePhases(phaseA, phaseB, magA, magB, mode).  Modes 'a' and 'b' (and
\* any unknown mode, which takes the default branch) return one of the
\* argument arrays itself.
combinePhases(phaseA, phaseB, mA, mB, mode) ==
    CASE mode = "a" -> phaseA
      [] mode = "b" -> phaseB
      [] mode = "average" ->
            Arr([k \in 1..Len(phaseA) |->
                LET totalMag == RAdd(mA[k], mB[k])
                IN  IF RLt(Zero, totalMag)
                    THEN LET weightA == RDiv(mA[k], totalMag)
                             weightB == RDiv(mB[k], totalMag)
                         IN  RAdd(RMul(phaseA[k], weightA), RMul(phaseB[k], weightB))
                    ELSE RDiv(RAdd(phaseA[k], phaseB[k]), R(2))])
      [] OTHER -> phaseA

Min(a, b) == IF a < b THEN a ELSE b

Max(a, b) == IF a < b THEN b ELSE a

\* Faulty variant: the longer length is taken without time matching
targetFramesMax(lenA, lenB, timeMatch) ==
    IF timeMatch THEN (lenA + lenB + 1) \div 2 ELSE Max(lenA, lenB)

\* targetFrames (lines 319-326); Math.ceil(x / 2) of an integer x
targetFrames(lenA, lenB, timeMatch) ==
    IF timeMatch THEN (lenA + lenB + 1) \div 2 ELSE Min(lenA, lenB)

\* indexA / indexB of iteration i (lines 342-350); len is the frame count of
\* the source the index is for
frameIndex(i, len, target, timeMatch) ==
    IF timeMatch THEN Min((i * len) \div target, len - 1) ELSE i

\* The frame loop (lines 339-377).  framesX[index] is undefined for an index
\* outside the array, and reading .magnitude of undefined throws a TypeError;
\* an exception of apply propagates.  An iteration that completes with
\* i % 50 = 0 reports 50 + floor(i / targetFrames * 30).
\* acc = [frames, trace, logged, threw, progress].
RECURSIVE FrameLoop(_, _, _, _, _, _, _, _)
FrameLoop(i, target, fA, fB, op, mode, timeMatch, acc) ==
    IF i >= target THEN acc
    ELSE LET indexA == frameIndex(i, Len(fA), target, timeMatch)
             indexB == frameIndex(i, Len(fB), target, timeMatch)
             trace == Append(acc.trace, [a |-> indexA, b |-> indexB])
         IN  IF indexA \notin 0..(Len(fA) - 1) \/ indexB \notin 0..(Len(fB) - 1)
             THEN [acc EXCEPT !.trace = trace, !.threw = TRUE]
             ELSE LET frameA == fA[indexA + 1]
                      frameB == fB[indexB + 1]
                      r == apply(op, frameA.magnitude, frameB.magnitude, acc.logged)
                  IN  CASE r.ret.kind = "TypeError" ->
                               [acc EXCEPT !.trace = trace, !.threw = TRUE,
                                           !.logged = r.logged]
                        [] r.ret.kind = "array" ->
                               FrameLoop(i + 1, target, fA, fB, op, mode, timeMatch,
                                   [frames |-> Append(acc.frames,
                                        [magnitude |-> r.ret.val,
                                         phase |-> combinePhases(frameA.phase,
                                                      frameB.phase, frameA.magnitude,
                                                      frameB.magnitude, mode)]),
                                    trace |-> trace,
                                    logged |-> r.logged,
                                    threw |-> FALSE,
                                    progress |->
                                        IF i % 50 = 0
                                        THEN Append(acc.progress,
                                                 50 + (i * 30) \div target)
                                        ELSE acc.progress])

\* resynthesize: outputLength = (outputFrames.length - 1) * hopSize + windowSize
\* Faulty variant: the tail of the last window is not counted
outputLengthNoTail(numFrames, windowSize, overlapPercent) ==
    numFrames * hopSize(windowSize, overlapPercent)

outputLength(numFrames, windowSize, overlapPercent) ==
    (numFrames - 1) * hopSize(windowSize, overlapPercent) + windowSize

\* The positions offset + j the inner loop of the overlap-add reaches:
\* j < windowSize && offset + j < outputLength
AddPositions(offset, windowSize, outLen) ==
    {offset + j : j \in {jj \in 0..(windowSize - 1) : offset + jj < outLen}}

\* The overlap-add loop from frame i on.  acc = [outputData, windowSum,
\* writes]; writes lists, frame by frame, the positions accumulated into.  A
\* store to a typed array outside its bounds has no effect.
RECURSIVE OverlapAdd(_, _, _, _, _, _)
OverlapAdd(frames, i, hop, window, outLen, acc) ==
    IF i >= Len(frames) THEN acc
    ELSE LET frame == frames[i + 1]
             timeSignal == Arr(performIFFT(frame.magnitude, frame.phase))
             offset == i * hop
             at == AddPositions(offset, Len(window), outLen)
         IN  OverlapAdd(frames, i + 1, hop, window, outLen,
                 [outputData |-> Arr([p \in 1..outLen |->
                      IF p - 1 \in at
                      THEN RAdd(acc.outputData[p],
                                RMul(timeSignal[p - offset], window[p - offset]))
                      ELSE acc.outputData[p]]),
                  windowSum |-> Arr([p \in 1..outLen |->
                      IF p - 1 \in at
                      THEN RAdd(acc.windowSum[p], window[p - offset])
                      ELSE acc.windowSum[p]]),
                  writes |-> Append(acc.writes, at)])

\* Faulty variant: every position is divided by its window sum
normalizeUnguarded(outputData, windowSum) ==
    Arr([p \in 1..Len(outputData) |-> RDiv(outputData[p], windowSum[p])])

\* if (windowSum[i] > 0.001) outputData[i] /= windowSum[i]
normalizeByWindowSum(outputData, windowSum) ==
    Arr([p \in 1..Len(outputData) |->
            IF RLt(Rat(1, 1000), windowSum[p])
            THEN RDiv(outputData[p], windowSum[p])
            ELSE outputData[p]])

\* maxAmplitude: the running maximum of Math.abs(outputData[i]), from 0
RECURSIVE maxAmplitudeFrom(_, _, _)
maxAmplitudeFrom(outputData, i, max) ==
    IF i > Len(outputData) THEN max
    ELSE maxAmplitudeFrom(outputData, i + 1,
             IF RLt(max, RAbs(outputData[i])) THEN RAbs(outputData[i]) ELSE max)

\* Faulty variant: the peak is scaled to full scale
scalePeakToOne(outputData) ==
    LET maxAmplitude == maxAmplitudeFrom(outputData, 1, Zero)
    IN  IF RLt(Zero, maxAmplitude)
        THEN Arr([p \in 1..Len(outputData) |-> RDiv(outputData[p], maxAmplitude)])
        ELSE outputData

\* if (maxAmplitude > 0) every sample is multiplied by 0.95 / maxAmplitude
scalePeak(outputData) ==
    LET maxAmplitude == maxAmplitudeFrom(outputData, 1, Zero)
    IN  IF RLt(Zero, maxAmplitude)
        THEN LET scale == RDiv(Rat(19, 20), maxAmplitude)
             IN  Arr([p \in 1..Len(outputData) |-> RMul(outputData[p], scale)])
        ELSE outputData

NoBuffer == [isNull |-> TRUE, length |-> 0, data |-> << >>]

\* resynthesize(windowSize, overlapPercent) on this.outputFrames = frames.
\* new Float32Array of a negative length throws a RangeError, and
\* createBuffer of a length below 1 a NotSupportedError.
resynthesize(frames, windowSize, overlapPercent) ==
    LET hop == hopSize(windowSize, overlapPercent)
        window == getHannWindow(windowSize)
        outLen == outputLength(Len(frames), windowSize, overlapPercent)
    IN  IF outLen < 0
        THEN [error |-> "RangeError", buffer |-> NoBuffer, writes |-> << >>]
        ELSE LET zeros == Arr([p \in 1..outLen |-> Zero])
                 sum == OverlapAdd(frames, 0, hop, window, outLen,
                            [outputData |-> zeros, windowSum |-> zeros,
                             writes |-> << >>])
                 outputData == scalePeak(Arr(normalizeByWindowSum(
                                   sum.outputData, sum.windowSum)))
             IN  IF outLen = 0
                 THEN [error |-> "NotSupportedError", buffer |-> NoBuffer,
                       writes |-> sum.writes]
                 ELSE [error |-> "none",
                       buffer |-> [isNull |-> FALSE, length |-> outLen,
                                   data |-> outputData],
                       writes |-> sum.writes]

Null == [loaded |-> FALSE, data |-> << >>]
Buffer(samples) == [loaded |-> TRUE, data |-> samples]

NoRun == [operation |-> "none", phaseMode |-> "none", windowSize |-> 0,
          overlapPercent |-> 0, timeMatch |-> FALSE]

\* The state of a new AudioProcessor (constructor) and a fresh FFTOperations
InitProcessor ==
    /\ audioBufferA = Null
    /\ audioBufferB = Null
    /\ outputBuffer = NoBuffer
    /\ framesA = << >>
    /\ framesB = << >>
    /\ outputFrames = << >>
    /\ lastRun = NoRun
    /\ outcome = "none"
    /\ idxTrace = << >>
    /\ writes = << >>
    /\ progress = << >>
    /\ calls = 0

setAudioA(buffer) ==
    /\ audioBufferA' = buffer
    /\ UNCHANGED <<audioBufferB, framesA, framesB, outputFrames, outputBuffer,
                   lastRun, outcome, idxTrace, writes, progress, logged>>

setAudioB(buffer) ==
    /\ audioBufferB' = buffer
    /\ UNCHANGED <<audioBufferA, framesA, framesB, outputFrames, outputBuffer,
                   lastRun, outcome, idxTrace, writes, progress, logged>>

\* Faulty variant: only input A is looked at
OnlyALoaded == audioBufferA.loaded

\* The guard of process(): both audioBufferA and audioBufferB are set
BothLoaded == audioBufferA.loaded /\ audioBufferB.loaded

\* process() throws at its guard: nothing was reported and no field written
processRejected ==
    /\ outcome' = "Both audio files must be loaded"
    /\ progress' = << >>
    /\ UNCHANGED <<audioBufferA, audioBufferB, framesA, framesB, outputFrames,
                   outputBuffer, lastRun, idxTrace, writes, logged>>

\* process() never leaves the frame loop of a performSTFT whose hop is <= 0:
\* of A's (after reporting 10) or, framesA assigned, of B's (after 30).  The
\* loop pushes frames until memory runs out; nothing runs after it.
processHangs(run) ==
    /\ outcome' = "diverged"
    /\ lastRun' = run
    /\ idxTrace' = << >>
    /\ writes' = << >>
    /\ IF ~Terminates(Len(audioBufferA.data), run.windowSize, run.overlapPercent)
       THEN progress' = << 10 >> /\ UNCHANGED framesA
       ELSE /\ progress' = << 10, 30 >>
            /\ framesA' = performSTFT(audioBufferA.data, run.windowSize,
                                      run.overlapPercent)
    /\ UNCHANGED <<audioBufferA, audioBufferB, framesB, outputFrames,
                   outputBuffer, logged>>

\* Which array combinePhases returns: phaseA itself (lines 276 and 292),
\* phaseB itself (line 278), or result, the array it allocated (line 290).
\* An output frame built in mode 'a' or 'b' holds the very phase array of
\* the source frame.
combinePhasesReturns(mode) ==
    CASE mode = "a" -> "phaseA"
      [] mode = "b" -> "phaseB"
      [] mode = "average" -> "result"
      [] OTHER -> "phaseA"

\* Faulty variant: the conjugation of ifft is done on the phase array handed in
performIFFTNegatesPhase(magnitude, phase) ==
    [magnitude |-> magnitude,
     phase |-> Arr([i \in 1..Len(phase) |-> RNeg(phase[i])])]

\* The contents of the two arrays handed to performIFFT when it returns.
\* Every store of performIFFT (lines 189-190, 196-197, 206), and of the ifft
\* and fft it calls on real and imag, goes to real or imag, the arrays
\* allocated at lines 184-185; magnitude and phase are only read.
performIFFTLeaves(magnitude, phase) ==
    [magnitude |-> magnitude, phase |-> phase]

\* The analysis and output frames after the loop of resynthesize (lines
\* 418-428) has handed output frames i.. to performIFFT.  The phase array of
\* output frame i is that of framesA[indexA] or framesB[indexB] when
\* combinePhases returned it, so what performIFFT leaves in it is left in
\* the source frame.  trace[i] holds the indices of iteration i (0-based);
\* an output frame that the frame loop of this run did not push shares no
\* array with the analysis frames of this run.
RECURSIVE resynthesizeLeaves(_, _, _, _, _, _)
resynthesizeLeaves(i, fA, fB, out, trace, mode) ==
    IF i > Len(out) THEN [framesA |-> fA, framesB |-> fB, outputFrames |-> out]
    ELSE LET shared == IF i <= Len(trace) THEN combinePhasesReturns(mode)
                       ELSE "result"
             ia == trace[i].a + 1
             ib == trace[i].b + 1
             left == performIFFTLeaves(out[i].magnitude, out[i].phase)
         IN  resynthesizeLeaves(i + 1,
                 IF shared = "phaseA"
                 THEN [fA EXCEPT ![ia].phase = left.phase] ELSE fA,
                 IF shared = "phaseB"
                 THEN [fB EXCEPT ![ib].phase = left.phase] ELSE fB,
                 [out EXCEPT ![i] = [magnitude |-> left.magnitude,
                                     phase |-> left.phase]],
                 trace, mode)

\* Faulty variant: the frames of the run before are kept
keptOutputFrames == outputFrames

\* this.outputFrames = [] (line 328), before the frame loop pushes to it
emptyOutputFrames == << >>

\* process(operation, phaseMode, windowSize, overlapPercent, timeMatch,
\* progressCallback): the function has no await, so it runs to its return or
\* throw in one step.
process(op, mode, windowSize, overlapPercent, timeMatch) ==
    LET run == [operation |-> op, phaseMode |-> mode, windowSize |-> windowSize,
                overlapPercent |-> overlapPercent, timeMatch |-> timeMatch]
    IN
    IF ~BothLoaded THEN processRejected
    ELSE IF \/ ~Terminates(Len(audioBufferA.data), windowSize, overlapPercent)
            \/ ~Terminates(Len(audioBufferB.data), windowSize, overlapPercent)
    THEN processHangs(run)
    ELSE \* each intermediate result is bound once, as the code computes it once
         \E fA \in {performSTFT(audioBufferA.data, windowSize, overlapPercent)},
            fB \in {performSTFT(audioBufferB.data, windowSize, overlapPercent)} :
         \E loop \in {FrameLoop(0, targetFrames(Len(fA), Len(fB), timeMatch),
                                 fA, fB, op, mode, timeMatch,
                                 [frames |-> emptyOutputFrames, trace |-> << >>,
                                  logged |-> resetLog, threw |-> FALSE,
                                  progress |-> << 10, 30, 50 >>])} :
         \E synth \in {IF loop.threw
                       THEN [error |-> "TypeError", buffer |-> NoBuffer,
                             writes |-> << >>]
                       ELSE resynthesize(loop.frames, windowSize, overlapPercent)} :
         \E left \in {IF loop.threw \/ synth.error = "RangeError"
                      THEN [framesA |-> fA, framesB |-> fB,
                            outputFrames |-> loop.frames]
                      ELSE resynthesizeLeaves(1, fA, fB, loop.frames,
                                              loop.trace, mode)} :
             /\ framesA' = left.framesA
             /\ framesB' = left.framesB
             /\ outputFrames' = left.outputFrames
             /\ idxTrace' = loop.trace
             /\ logged' = loop.logged
             /\ lastRun' = run
             /\ writes' = synth.writes
             /\ IF loop.threw
                THEN /\ outcome' = "TypeError"
                     /\ progress' = loop.progress
                     /\ UNCHANGED outputBuffer
                ELSE IF synth.error # "none"
                THEN /\ outcome' = synth.error
                     /\ progress' = Append(loop.progress, 80)
                     /\ UNCHANGED outputBuffer
                ELSE /\ outcome' = "returned"
                     /\ progress' = loop.progress \o << 80, 100 >>
                     /\ outputBuffer' = synth.buffer
             /\ UNCHANGED <<audioBufferA, audioBufferB>>

-----------------------------------------------------------------------------
(* AudioProcessor.exportToWAV.  A byte is a number in 0..255 and the file  *)
(* is the sequence of the bytes of the ArrayBuffer.                        *)

\* string.charCodeAt(i) of the four tags
TagRIFF == << 82, 73, 70, 70 >>
TagWAVE == << 87, 65, 86, 69 >>
TagFmt == << 102, 109, 116, 32 >>
TagData == << 100, 97, 116, 97 >>

\* Faulty variant: most significant byte first
Uint32BE(v) ==
    << (v \div 16777216) % 256, (v \div 65536) % 256, (v \div 256) % 256, v % 256 >>

\* view.setUint32(offset, v, true): the four bytes, least significant first.
\* Every v of the model is below 2^31, so the reduction modulo 2^32 is the
\* reduction of the top byte.
Uint32LE(v) ==
    << v % 256, (v \div 256) % 256, (v \div 65536) % 256, (v \div 16777216) % 256 >>

\* view.setUint16(offset, v, true)
Uint16LE(v) == << v % 256, (v \div 256) % 256 >>

\* The integer a DataView setter makes of a Number: NaN gives 0, any other
\* value is truncated toward zero
Trunc(x) ==
    IF x.d = 0 THEN 0
    ELSE IF x.n >= 0 THEN x.n \div x.d ELSE -((-x.n) \div x.d)

\* view.setInt16(offset, x, true): the truncated value modulo 2^16, in two's
\* complement, least significant byte first
Int16LE(x) == Uint16LE(Trunc(x) % 65536)

\* Faulty variant: the sample is scaled without being clamped
pcm16Unclamped(sample) == RMul(sample, R(32767))

\* const int16 = Math.max(-1, Math.min(1, sample)) * 0x7FFF
pcm16(sample) == RMul(RMax(R(-1), RMin(R(1), sample)), R(32767))

\* The bytes after the stores of seq at offset, offset + 1, ...
SetBytes(bytes, offset, seq) ==
    [q \in 1..Len(bytes) |->
        IF q - 1 - offset \in 0..(Len(seq) - 1) THEN seq[q - offset] ELSE bytes[q]]

\* The header stores, in program order; length = buffer.length * channels * 2
HeaderWrites(buffer, length) ==
    << [at |-> 0, bytes |-> TagRIFF],
       [at |-> 4, bytes |-> Uint32LE(36 + length)],
       [at |-> 8, bytes |-> TagWAVE],
       [at |-> 12, bytes |-> TagFmt],
       [at |-> 16, bytes |-> Uint32LE(16)],
       [at |-> 20, bytes |-> Uint16LE(1)],
       [at |-> 22, bytes |-> Uint16LE(buffer.numberOfChannels)],
       [at |-> 24, bytes |-> Uint32LE(buffer.sampleRate)],
       [at |-> 28, bytes |-> Uint32LE(buffer.sampleRate * buffer.numberOfChannels * 2)],
       [at |-> 32, bytes |-> Uint16LE(buffer.numberOfChannels * 2)],
       [at |-> 34, bytes |-> Uint16LE(16)],
       [at |-> 36, bytes |-> TagData],
       [at |-> 40, bytes |-> Uint32LE(length)] >>

RECURSIVE ApplyWrites(_, _, _)
ApplyWrites(bytes, ws, k) ==
    IF k > Len(ws) THEN bytes
    ELSE ApplyWrites(Arr(SetBytes(bytes, ws[k].at, ws[k].bytes)), ws, k + 1)

\* for (i ...) for (channel ...): one setInt16 at offset, then offset += 2
RECURSIVE WriteSamples(_, _, _, _, _)
WriteSamples(buffer, i, channel, offset, bytes) ==
    IF i >= buffer.length THEN bytes
    ELSE IF channel >= buffer.numberOfChannels
    THEN WriteSamples(buffer, i + 1, 0, offset, bytes)
    ELSE WriteSamples(buffer, i, channel + 1, offset + 2,
             Arr(SetBytes(bytes, offset,
                          Int16LE(pcm16(buffer.channels[channel + 1][i + 1])))))

\* exportToWAV(buffer): the bytes of the Blob
exportToWAV(buffer) ==
    LET length == buffer.length * buffer.numberOfChannels * 2
        arrayBuffer == Arr([q \in 1..(44 + length) |-> 0])
    IN  WriteSamples(buffer, 0, 0, 44,
                     ApplyWrites(arrayBuffer, HeaderWrites(buffer, length), 1))

-----------------------------------------------------------------------------
(* Spec: the processor driven by loads and process() calls *)

Sig(samples) == Arr([k \in DOMAIN samples |-> R(samples[k])])

\* Decoded signals offered to slot A and to slot B.  The one-sample signals
\* are shorter than the window and give no frame.
SignalsA == {Sig(<<1>>), Sig(<<1, -1, 0>>), Sig(<<1, -1, 0, -2, 1>>)}
SignalsB == {Sig(<<2>>), Sig(<<1, 2, 0>>), Sig(<<1, 2, 0, -1, 2>>)}

\* Selectors and phase modes handed to process(): an operator of each kind
\* (elementwise, difference, inversion, squaring; SpecOps covers all ten) and
\* "bogus", which is no property of FFTOperations; "other" is no case of the
\* phase switch.
ProcessSelectors == {"and", "xor", "notA", "aSquared", "bogus"}
PhaseModes == {"a", "b", "average", "other"}
WindowSizes == {2}
\* With overlap 100 the hop is 0.
Overlaps == {0, 50, 100}

OpsIdle ==
    /\ magA = << >>
    /\ magB = << >>
    /\ call = "none"
    /\ operation = "none"
    /\ result = Array(<< >>)

StftIdle == stft = [L |-> 0, N |-> 0, O |-> 0, state |-> "idle",
                    starts |-> << >>, reads |-> << >>]

XformIdle == xform = [x |-> << >>, state |-> "idle", spectrum |-> << >>,
                      real |-> << >>, imag |-> << >>, error |-> "none"]

WavIdle == wav = [numberOfChannels |-> 0, sampleRate |-> 0, length |-> 0,
                  channels |-> << >>, state |-> "idle", bytes |-> << >>]

SpectrumIdle == spectrum = [magnitude |-> << >>, phase |-> << >>,
                            state |-> "idle", real |-> << >>, imag |-> << >>,
                            signal |-> << >>]

KernelIdle == fftRun = [n |-> 0, real |-> << >>, imag |-> << >>, pc |-> "idle",
                        i |-> 0, j |-> 0, k |-> 0, len |-> 0, swaps |-> << >>,
                        indices |-> {}]

\* The fields of a new App (constructor) and the page as loaded
InitApp ==
    /\ audioA = Null
    /\ audioB = Null
    /\ appOutputBuffer = NoBuffer
    /\ progressText = << >>
    /\ alerted = "none"
    /\ currentSource = 0
    /\ currentPlayingType = "null"
    /\ sources = << >>
    /\ fileNameA = ""
    /\ fileNameB = ""
    /\ loads = << >>
    /\ timers = << >>

Init ==
    /\ InitProcessor
    /\ logged = "undefined"
    /\ OpsIdle
    /\ StftIdle
    /\ XformIdle
    /\ WavIdle
    /\ InitApp
    /\ KernelIdle
    /\ SpectrumIdle

\* One more call is made on the processor; none is once a call hangs.
Called(name) ==
    /\ outcome # "diverged"
    /\ calls < MaxCalls
    /\ calls' = calls + 1
    /\ call' = name
    /\ UNCHANGED <<magA, magB, operation, result, pureVars, appVars>>

LoadA == \E s \in SignalsA : setAudioA(Buffer(s)) /\ Called("setAudioA")

LoadB == \E s \in SignalsB : setAudioB(Buffer(s)) /\ Called("setAudioB")

Process ==
    \E op \in ProcessSelectors, mode \in PhaseModes, n \in WindowSizes,
       o \in Overlaps, tm \in BOOLEAN :
        Called("process") /\ process(op, mode, n, o, tm)

Next == LoadA \/ LoadB \/ Process

Spec == Init /\ [][Next]_vars

-----------------------------------------------------------------------------
(* SpecOps: the operators as pure functions of two equal-length arrays.    *)
(* A half-spectrum has windowSize / 2 >= 1 bins.                           *)

\* Magnitudes the arrays are drawn from (a magnitude is never negative)
Mags == {R(0), R(2), R(3)}

Arrays(len) == [1..len -> Mags]

\* Selectors handed to apply: the ten operators, two names that are no
\* property of the object, and names that are properties but no operator.
Selectors == Operators \cup {"bogus", "", "apply", "resetLog", "_logged", "toString"}

InitOps ==
    /\ \E len \in 1..MaxBins :
          /\ magA \in Arrays(len)
          /\ magB \in Arrays(len)
    /\ call = "none"
    /\ operation = "none"
    /\ result = Array(<< >>)
    /\ logged = "undefined"
    /\ InitProcessor
    /\ StftIdle
    /\ XformIdle
    /\ WavIdle
    /\ InitApp
    /\ KernelIdle
    /\ SpectrumIdle

\* A direct call of one operator, FFTOperations.<name>(magA, magB).
CallOperator ==
    \E name \in Operators :
        /\ call' = "operator"
        /\ operation' = name
        /\ result' = Array(Operator(name, magA, magB))
        /\ UNCHANGED <<magA, magB, logged, procVars, pureVars, appVars>>

\* FFTOperations.apply(sel, magA, magB)
CallApply ==
    \E sel \in Selectors :
        LET r == apply(sel, magA, magB, logged)
        IN  /\ call' = "apply"
            /\ operation' = sel
            /\ result' = r.ret
            /\ logged' = r.logged
            /\ UNCHANGED <<magA, magB, procVars, pureVars, appVars>>

\* FFTOperations.resetLog()
CallResetLog ==
    /\ logged' = resetLog
    /\ UNCHANGED <<opsVars, procVars, pureVars, appVars>>

NextOps == CallOperator \/ CallApply \/ CallResetLog

SpecOps == InitOps /\ [][NextOps]_vars

-----------------------------------------------------------------------------
(* SpecSTFT: the frame loop of performSTFT on its own *)

STFTWindowSizes == {1, 2, 4, 8}
STFTOverlaps == {0, 25, 50, 75, 90, 100}

InitSTFT ==
    /\ \E len \in 0..MaxSignal, n \in STFTWindowSizes, o \in STFTOverlaps :
          stft = [L |-> len, N |-> n, O |-> o, state |-> "idle",
                  starts |-> << >>, reads |-> << >>]
    /\ InitProcessor
    /\ logged = "undefined"
    /\ OpsIdle
    /\ XformIdle
    /\ WavIdle
    /\ InitApp
    /\ KernelIdle
    /\ SpectrumIdle

\* performSTFT returns: starts[k] is the offset i of frame k and reads[k]
\* the set of sample indices the body read for it.
STFTReturn ==
    /\ stft.state = "idle"
    /\ Terminates(stft.L, stft.N, stft.O)
    /\ LET starts == FrameStarts(0, stft.L, stft.N, hopSize(stft.N, stft.O))
       IN  stft' = [stft EXCEPT !.state = "returned",
                                !.starts = starts,
                                !.reads = Arr([k \in 1..Len(starts) |->
                                              FrameReads(starts[k], stft.N)])]
    /\ UNCHANGED <<opsVars, procVars, logged, xform, wav, fftRun, spectrum,
                   appVars>>

\* hopSize <= 0 with room for a first frame: i never passes the end of the
\* signal and the loop pushes frames without end.
STFTDiverge ==
    /\ stft.state = "idle"
    /\ ~Terminates(stft.L, stft.N, stft.O)
    /\ stft' = [stft EXCEPT !.state = "diverged"]
    /\ UNCHANGED <<opsVars, procVars, logged, xform, wav, fftRun, spectrum,
                   appVars>>

NextSTFT == STFTReturn \/ STFTDiverge

SpecSTFT == InitSTFT /\ [][NextSTFT]_vars

-----------------------------------------------------------------------------
(* SpecFFT: fft and ifft called on a real array and a zero imaginary part *)

TransformValues == {R(-1), R(0), R(2)}

InitFFT ==
    /\ \E n \in 1..MaxTransform :
          \E x \in [1..n -> TransformValues] :
              xform = [x |-> Arr(x), state |-> "idle", spectrum |-> << >>,
                       real |-> << >>, imag |-> << >>, error |-> "none"]
    /\ InitProcessor
    /\ logged = "undefined"
    /\ OpsIdle
    /\ StftIdle
    /\ WavIdle
    /\ InitApp
    /\ KernelIdle
    /\ SpectrumIdle

\* const imag = new Float32Array(n)
ZeroArray(n) == Arr([k \in 1..n |-> Zero])

\* fft(real, imag) with real = x, imag = 0.  The function has no throw, so
\* the call always returns with error "none".
CallFft ==
    /\ xform.state = "idle"
    /\ \E f \in {fft([real |-> xform.x, imag |-> ZeroArray(Len(xform.x))])} :
           xform' = [xform EXCEPT !.state = "fft", !.spectrum = f,
                                  !.real = f.real, !.imag = f.imag]
    /\ UNCHANGED <<opsVars, procVars, logged, stft, wav, fftRun, spectrum,
                   appVars>>

\* fft(real, imag) and then ifft(real, imag) on the same two arrays
CallFftIfft ==
    /\ xform.state = "idle"
    /\ \E f \in {fft([real |-> xform.x, imag |-> ZeroArray(Len(xform.x))])} :
       \E g \in {ifft(f)} :
           xform' = [xform EXCEPT !.state = "roundtrip", !.spectrum = f,
                                  !.real = g.real, !.imag = g.imag]
    /\ UNCHANGED <<opsVars, procVars, logged, stft, wav, fftRun, spectrum,
                   appVars>>

NextFFT == CallFft \/ CallFftIfft

SpecFFT == InitFFT /\ [][NextFFT]_vars

-----------------------------------------------------------------------------
(* SpecWAV: exportToWAV called on a buffer *)

\* Sample values offered: beyond full scale on both sides, and fractions
WavSamples == {R(-2), Rat(-1, 2), Rat(1, 3), R(3)}
WavChannels == {1, 2}
WavRates == {8000, 44100}

InitWAV ==
    /\ \E c \in WavChannels, rate \in WavRates, len \in 0..MaxWavFrames :
          \E data \in [1..c -> [1..len -> WavSamples]] :
              wav = [numberOfChannels |-> c, sampleRate |-> rate, length |-> len,
                     channels |-> Arr([ch \in 1..c |-> Arr(data[ch])]),
                     state |-> "idle", bytes |-> << >>]
    /\ InitProcessor
    /\ logged = "undefined"
    /\ OpsIdle
    /\ StftIdle
    /\ XformIdle
    /\ InitApp
    /\ KernelIdle
    /\ SpectrumIdle

CallExportToWAV ==
    /\ wav.state = "idle"
    /\ wav' = [wav EXCEPT !.state = "exported", !.bytes = exportToWAV(wav)]
    /\ UNCHANGED <<opsVars, procVars, logged, stft, xform, fftRun, spectrum,
                   appVars>>

NextWAV == CallExportToWAV

SpecWAV == InitWAV /\ [][NextWAV]_vars

-----------------------------------------------------------------------------
(* SpecRun: the page driving the processor.  Files are loaded into the two *)
(* slots and the process button is clicked, any number of times in any     *)
(* order.  Of the overlay only the progress text is modelled.              *)

\* Decoded files offered to slot A and to slot B: one shorter than the
\* window, which gives no frame, and one that gives frames
RunSignalsA == {Sig(<<1>>), Sig(<<1, -1, 0, -2, 1>>)}
RunSignalsB == {Sig(<<2>>), Sig(<<1, 2, 0>>)}

\* Configurations the page hands to process()
RunSelectors == {"xor", "aSquared"}
RunPhaseModes == {"a", "average"}

\* The part of App.loadAudioFile(file, type) between its awaits that stores
\* the decoded buffer (lines 193-205): this.audioX = audioBuffer,
\* audioProcessor.setAudioX(audioBuffer) and fileNameX.textContent =
\* file.name.  The other parts of a load write to the overlay only.
storeDecoded(type, audioBuffer, name) ==
    IF type = "A"
    THEN /\ audioA' = audioBuffer
         /\ setAudioA(audioBuffer)
         /\ fileNameA' = name
         /\ UNCHANGED <<audioB, fileNameB>>
    ELSE /\ audioB' = audioBuffer
         /\ setAudioB(audioBuffer)
         /\ fileNameB' = name
         /\ UNCHANGED <<audioA, fileNameA>>

\* The name of the files loaded where the names play no role
RunFileName == "file.wav"

\* showLoading(true): the overlay is shown and the progress text reset to 0%
showLoadingResets == << 0 >>

\* What processAudio reports after process() returned: updateProgress(90,
\* 'Updating visualizations...') and updateProgress(100, 'Complete!')
afterProcess == << 90, 100 >>

\* processAudio().  process() is an async function without an await: it runs
\* to its end inside the call, and the continuation of "await process(...)"
\* is a microtask of the same task, so no other handler runs in between.
\* updateProgress writes each percentage it is handed to progressText.  A
\* process() that hangs never gives control back.  The visualizer calls are
\* taken to return normally.
processAudio(op, mode, windowSize, overlapPercent, timeMatch) ==
    IF ~audioA.loaded \/ ~audioB.loaded
    THEN /\ alerted' = "Please load both audio files first"
         /\ UNCHANGED <<audioBufferA, audioBufferB, framesA, framesB,
                        outputFrames, outputBuffer, lastRun, outcome, idxTrace,
                        writes, progress, logged, appOutputBuffer, progressText>>
    ELSE /\ process(op, mode, windowSize, overlapPercent, timeMatch)
         /\ progressText' =
                showLoadingResets \o progress' \o
                    (IF outcome' = "returned" THEN afterProcess ELSE << >>)
         /\ CASE outcome' = "returned" ->
                    /\ appOutputBuffer' = outputBuffer'
                    /\ UNCHANGED alerted
              [] outcome' = "diverged" ->
                    UNCHANGED <<appOutputBuffer, alerted>>
              [] OTHER ->
                    \* catch: alert('Error processing audio: ' + error.message)
                    /\ alerted' = "Error processing audio"
                    /\ UNCHANGED appOutputBuffer

\* A new page: new AudioProcessor(), new App()
InitRun ==
    /\ InitProcessor
    /\ InitApp
    /\ KernelIdle
    /\ SpectrumIdle
    /\ logged = "undefined"
    /\ OpsIdle
    /\ StftIdle
    /\ XformIdle
    /\ WavIdle

\* A load of a file into slot A or B, decoded to one of the given signals,
\* reaches the point where it stores the decoded buffer; the page is frozen
\* once a run hangs
FileDecodedFrom(signalsA, signalsB) ==
    /\ outcome # "diverged"
    /\ \/ \E s \in signalsA : storeDecoded("A", Buffer(s), RunFileName)
       \/ \E s \in signalsB : storeDecoded("B", Buffer(s), RunFileName)
    /\ call' = "loadAudioFile"
    /\ UNCHANGED <<magA, magB, operation, result, calls, pureVars,
                   appOutputBuffer, progressText, alerted, playVars, loadVars>>

FileDecoded == FileDecodedFrom(RunSignalsA, RunSignalsB)

\* A click on the process button with the controls set to one of the given
\* values
ClickProcessWith(selectors, modes, overlaps, timeMatches) ==
    /\ outcome # "diverged"
    /\ \E op \in selectors, mode \in modes, n \in WindowSizes,
          o \in overlaps, tm \in timeMatches :
           processAudio(op, mode, n, o, tm)
    /\ call' = "processAudio"
    /\ UNCHANGED <<magA, magB, operation, result, calls, pureVars, audioA,
                   audioB, playVars, nameVars, loadVars>>

ClickProcess == ClickProcessWith(RunSelectors, RunPhaseModes, Overlaps, BOOLEAN)

NextRun == FileDecoded \/ ClickProcess

SpecRun == InitRun /\ [][NextRun]_vars

-----------------------------------------------------------------------------
(* SpecKernel: fft followed statement by statement on arrays of a          *)
(* power-of-two length.  real[p] and imag[p] hold labels that name the     *)
(* element first stored at p, so the arrays show where each element went.  *)
(* The arithmetic of the butterflies is that of ButterflyBlock above; here *)
(* a butterfly only records the indices u and v it reads and writes.       *)

RECURSIVE Pow2(_)
Pow2(e) == IF e = 0 THEN 1 ELSE 2 * Pow2(e - 1)

\* Label of the element first stored at index p of real, and of imag
RealLabel(p) == p
ImagLabel(p) == -1 - p

InitKernel ==
    /\ \E e \in 0..MaxLog2 :
          fftRun = [n |-> Pow2(e),
                    real |-> Arr([p \in 1..Pow2(e) |-> RealLabel(p - 1)]),
                    imag |-> Arr([p \in 1..Pow2(e) |-> ImagLabel(p - 1)]),
                    pc |-> "fft", i |-> 0, j |-> 0, k |-> 0, len |-> 0,
                    swaps |-> << >>, indices |-> {}]
    /\ InitProcessor
    /\ InitApp
    /\ logged = "undefined"
    /\ OpsIdle
    /\ StftIdle
    /\ XformIdle
    /\ WavIdle
    /\ SpectrumIdle

KernelStep(next) ==
    /\ fftRun' = next
    /\ UNCHANGED <<opsVars, procVars, logged, stft, xform, wav, spectrum,
                   appVars>>

\* [arr[i], arr[j]] = [arr[j], arr[i]]: a store outside the bounds has no
\* effect and a read outside them gives undefined
SwapLabels(arr, i, j) ==
    IF i \in 0..(Len(arr) - 1) /\ j \in 0..(Len(arr) - 1)
    THEN [arr EXCEPT ![i + 1] = arr[j + 1], ![j + 1] = arr[i + 1]]
    ELSE arr

\* Faulty variant: every pair of different indices is swapped
bitRevSwapsUnequal(i, j) == i # j

\* if (i < j) (line 86)
bitRevSwaps(i, j) == i < j

\* Faulty variant: the condition as it was before "k > 0" was added
whileContinuesWithoutFloor(k, j) == k <= j

\* while (k > 0 && k <= j) (line 91)
whileContinues(k, j) == k > 0 /\ k <= j

\* const n = real.length; if (n <= 1) return; let j = 0; i = 0 (lines 80-85)
FftEnter ==
    /\ fftRun.pc = "fft"
    /\ KernelStep(IF fftRun.n <= 1
                  THEN [fftRun EXCEPT !.pc = "returned"]
                  ELSE [fftRun EXCEPT !.pc = "bitrev", !.i = 0, !.j = 0])

\* One pass of for (let i = 0; i < n; i++) up to the while: the swap of
\* real and imag at i and j when i < j, then k = n >> 1 (lines 85-90)
BitRevSwap ==
    /\ fftRun.pc = "bitrev"
    /\ fftRun.i < fftRun.n
    /\ KernelStep(
         IF bitRevSwaps(fftRun.i, fftRun.j)
         THEN [fftRun EXCEPT !.real = SwapLabels(@, fftRun.i, fftRun.j),
                             !.imag = SwapLabels(@, fftRun.i, fftRun.j),
                             !.swaps = Append(@, <<fftRun.i, fftRun.j>>),
                             !.indices = @ \cup {fftRun.i, fftRun.j},
                             !.k = fftRun.n \div 2,
                             !.pc = "while"]
         ELSE [fftRun EXCEPT !.k = fftRun.n \div 2, !.pc = "while"])

\* One pass of the while body: j -= k; k >>= 1 (lines 92-93)
BitRevWhile ==
    /\ fftRun.pc = "while"
    /\ whileContinues(fftRun.k, fftRun.j)
    /\ KernelStep([fftRun EXCEPT !.j = @ - fftRun.k, !.k = @ \div 2])

\* The while is left: j += k; i++ (lines 95, 85)
BitRevNext ==
    /\ fftRun.pc = "while"
    /\ ~whileContinues(fftRun.k, fftRun.j)
    /\ KernelStep([fftRun EXCEPT !.j = @ + fftRun.k, !.i = @ + 1,
                                 !.pc = "bitrev"])

\* The permutation loop is left: len = 2 (line 99)
BitRevDone ==
    /\ fftRun.pc = "bitrev"
    /\ fftRun.i >= fftRun.n
    /\ KernelStep([fftRun EXCEPT !.pc = "stage", !.len = 2])

\* for (let len = 2; len <= n; len <<= 1): a stage begins with i = 0, or
\* the function returns (lines 99-104)
StageBegin ==
    /\ fftRun.pc = "stage"
    /\ KernelStep(IF fftRun.len <= fftRun.n
                  THEN [fftRun EXCEPT !.pc = "block", !.i = 0]
                  ELSE [fftRun EXCEPT !.pc = "returned"])

\* for (let i = 0; i < n; i += len): a block begins with j = 0, or the stage
\* ends with len <<= 1 (lines 104-108)
BlockBegin ==
    /\ fftRun.pc = "block"
    /\ KernelStep(IF fftRun.i < fftRun.n
                  THEN [fftRun EXCEPT !.pc = "butterfly", !.j = 0]
                  ELSE [fftRun EXCEPT !.pc = "stage", !.len = 2 * @])

\* for (let j = 0; j < len / 2; j++): one butterfly on u = i + j and
\* v = u + len / 2, or the block ends with i += len (lines 108-123)
Butterfly ==
    /\ fftRun.pc = "butterfly"
    /\ KernelStep(IF 2 * fftRun.j < fftRun.len
                  THEN [fftRun EXCEPT
                           !.indices = @ \cup {fftRun.i + fftRun.j,
                                               fftRun.i + fftRun.j + fftRun.len \div 2},
                           !.j = @ + 1]
                  ELSE [fftRun EXCEPT !.pc = "block", !.i = @ + fftRun.len])

NextKernel ==
    \/ FftEnter
    \/ BitRevSwap
    \/ BitRevWhile
    \/ BitRevNext
    \/ BitRevDone
    \/ StageBegin
    \/ BlockBegin
    \/ Butterfly

SpecKernel == InitKernel /\ [][NextKernel]_vars

\* fft is one sequence of statements that runs on once it is called
SpecKernelRuns == SpecKernel /\ WF_vars(NextKernel)

-----------------------------------------------------------------------------
(* SpecIFFT: performIFFT called on a half-spectrum *)

\* Magnitudes and phases (in units of pi) the half-spectrum is drawn from
SpectrumMags == {R(0), R(2)}
SpectrumPhases == {R(0), Rat(1, 2), Rat(-1, 6)}

InitIFFT ==
    /\ \E len \in 1..MaxHalf :
          \E m \in [1..len -> SpectrumMags], ph \in [1..len -> SpectrumPhases] :
              spectrum = [magnitude |-> Arr(m), phase |-> Arr(ph),
                          state |-> "idle", real |-> << >>, imag |-> << >>,
                          signal |-> << >>]
    /\ InitProcessor
    /\ InitApp
    /\ logged = "undefined"
    /\ OpsIdle
    /\ StftIdle
    /\ XformIdle
    /\ WavIdle
    /\ KernelIdle

\* performIFFT has built real and imag and is about to call ifft (line 201)
BuildSpectrum ==
    /\ spectrum.state = "idle"
    /\ \E c \in {fullSpectrum(spectrum.magnitude, spectrum.phase)} :
           spectrum' = [spectrum EXCEPT !.state = "built", !.real = c.real,
                                        !.imag = c.imag]
    /\ UNCHANGED <<opsVars, procVars, logged, stft, xform, wav, fftRun, appVars>>

\* ifft, the doubling and the return (lines 201-209), for the sizes whose
\* twiddle factors the model has exactly
InvertSpectrum ==
    /\ spectrum.state = "built"
    /\ Len(spectrum.real) \in {2, 4}
    /\ spectrum' = [spectrum EXCEPT
                       !.state = "returned",
                       !.signal = performIFFT(spectrum.magnitude, spectrum.phase)]
    /\ UNCHANGED <<opsVars, procVars, logged, stft, xform, wav, fftRun, appVars>>

NextIFFT == BuildSpectrum \/ InvertSpectrum

SpecIFFT == InitIFFT /\ [][NextIFFT]_vars

-----------------------------------------------------------------------------
(* SpecSilent: process() on a processor whose two inputs are all-zero      *)
(* signals, with every operator and phase mode.  The transform of a zero   *)
(* frame is exact for every size, so window size 4 is run as well.         *)

Silence(len) == Arr([k \in 1..len |-> Zero])

SilentWindowSizes == {2, 4}

InitSilent ==
    /\ \E la \in 1..MaxSilent, lb \in 1..MaxSilent :
          /\ audioBufferA = Buffer(Silence(la))
          /\ audioBufferB = Buffer(Silence(lb))
    /\ outputBuffer = NoBuffer
    /\ framesA = << >>
    /\ framesB = << >>
    /\ outputFrames = << >>
    /\ lastRun = NoRun
    /\ outcome = "none"
    /\ idxTrace = << >>
    /\ writes = << >>
    /\ progress = << >>
    /\ calls = 0
    /\ logged = "undefined"
    /\ InitApp
    /\ OpsIdle
    /\ StftIdle
    /\ XformIdle
    /\ WavIdle
    /\ KernelIdle
    /\ SpectrumIdle

\* process() is called once on the two silent inputs
ProcessSilence ==
    /\ lastRun = NoRun
    /\ \E op \in Operators, mode \in PhaseModes, n \in SilentWindowSizes,
          o \in Overlaps, tm \in BOOLEAN :
           process(op, mode, n, o, tm)
    /\ call' = "process"
    /\ UNCHANGED <<magA, magB, operation, result, calls, pureVars, appVars>>

NextSilent == ProcessSilence

SpecSilent == InitSilent /\ [][NextSilent]_vars

-----------------------------------------------------------------------------
(* SpecPlay: the play buttons.  togglePlay and stopAudio run to their end  *)
(* once called; the 'ended' event of a source is delivered later, as a    *)
(* task of its own, both when the source has played to its end and when   *)
(* stop() was called on it.                                                *)

PlayTypes == {"A", "B", "output"}

\* The buffer togglePlay(type) picks (lines 332-339)
bufferOf(type) ==
    CASE type = "A" -> audioA.loaded
      [] type = "B" -> audioB.loaded
      [] OTHER -> ~appOutputBuffer.isNull

\* source.stop(): a playing source stops and its 'ended' event is queued; on
\* a source that is not playing the call has no effect (an exception is
\* caught at line 379)
stopped(srcs, id) ==
    IF srcs[id].state = "playing" THEN [srcs EXCEPT ![id].state = "stopped"]
    ELSE srcs

\* stopAudio() (lines 375-386): what it leaves in [currentSource,
\* currentPlayingType, sources]
stopAudio ==
    [currentSource |-> 0,
     currentPlayingType |-> "null",
     sources |-> IF currentSource # 0 THEN stopped(sources, currentSource)
                 ELSE sources]

\* togglePlay(type) (lines 319-370)
togglePlay(type) ==
    IF currentPlayingType = type
    THEN /\ currentSource' = stopAudio.currentSource
         /\ currentPlayingType' = stopAudio.currentPlayingType
         /\ sources' = stopAudio.sources
    ELSE LET afterStop == IF currentSource # 0 THEN stopAudio
                          ELSE [currentSource |-> currentSource,
                                currentPlayingType |-> currentPlayingType,
                                sources |-> sources]
         IN  IF ~bufferOf(type)
             THEN /\ currentSource' = afterStop.currentSource
                  /\ currentPlayingType' = afterStop.currentPlayingType
                  /\ sources' = afterStop.sources
             ELSE \* createBufferSource, onended = ..., start(0)
                  /\ Len(sources) < MaxSources
                  /\ sources' = Append(afterStop.sources,
                                       [type |-> type, state |-> "playing"])
                  /\ currentSource' = Len(sources) + 1
                  /\ currentPlayingType' = type

\* The onended callback set at lines 353-357: it clears the two fields of
\* the App, whichever source it was set on
onended ==
    /\ currentSource' = 0
    /\ currentPlayingType' = "null"

\* The buffers to play come from a file stored into each slot and from a
\* run of one configuration that returns
PlayFileDecoded == FileDecodedFrom({Sig(<<1, -1, 0>>)}, {Sig(<<1, 2, 0>>)})

PlayClickProcess == ClickProcessWith({"xor"}, {"a"}, {50}, {FALSE})

PlayStep ==
    UNCHANGED <<opsVars, procVars, logged, pureVars, audioA, audioB,
                appOutputBuffer, progressText, alerted, nameVars, loadVars>>

\* A click on one of the three play buttons
ClickPlay == \E type \in PlayTypes : togglePlay(type) /\ PlayStep

\* A playing source reaches the end of its buffer; its 'ended' event is
\* queued
PlaybackEnds ==
    /\ \E id \in 1..Len(sources) :
          /\ sources[id].state = "playing"
          /\ sources' = [sources EXCEPT ![id].state = "finished"]
    /\ UNCHANGED <<currentSource, currentPlayingType>>
    /\ PlayStep

\* The 'ended' event of a source is delivered: its onended callback runs
Ended ==
    /\ \E id \in 1..Len(sources) :
          /\ sources[id].state \in {"stopped", "finished"}
          /\ sources' = [sources EXCEPT ![id].state = "closed"]
    /\ onended
    /\ PlayStep

NextPlay ==
    \/ PlayFileDecoded
    \/ PlayClickProcess
    \/ ClickPlay
    \/ PlaybackEnds
    \/ Ended

SpecPlay == InitRun /\ [][NextPlay]_vars

-----------------------------------------------------------------------------
(* SpecLoad: files chosen for the two slots while earlier loads are still  *)
(* running.  App.loadAudioFile is followed from await to await; what runs  *)
(* between two awaits is one task.  yieldToUI waits for a setTimeout(0)    *)
(* callback, and those callbacks run in the order the timers were set;     *)
(* file.arrayBuffer() and decodeAudioData settle when the browser is done  *)
(* with them, in any order.  Of the overlay nothing is modelled here.      *)

\* Files offered to the page.  audio: file.type starts with 'audio/';
\* decodable: decodeAudioData resolves, with a buffer of the given samples
LoadFiles ==
    { [name |-> "one.wav", audio |-> TRUE, decodable |-> TRUE,
       signal |-> Sig(<<1, -1>>)],
      [name |-> "two.wav", audio |-> TRUE, decodable |-> TRUE,
       signal |-> Sig(<<2>>)],
      [name |-> "notes.txt", audio |-> FALSE, decodable |-> FALSE,
       signal |-> << >>] }

Slots == {"A", "B"}

\* The loads that have neither reached their end nor their catch block
Running(ls) == {i \in 1..Len(ls) : ls[i].pc \notin {"done", "failed"}}

\* yieldToUI() called by load id: its timer is set behind the ones waiting
yieldToUI(queue, id) == Append(queue, id)

\* loadAudioFile(file, type) up to its first await (line 174)
loadAudioFile(file, type) ==
    /\ Len(loads) < MaxLoads
    /\ loads' = Append(loads, [file |-> file, type |-> type,
                               pc |-> "yieldToUI174",
                               pending |-> Running(loads)])
    /\ timers' = yieldToUI(timers, Len(loads) + 1)

\* handleFileSelect(event, type) with a file in event.target.files
handleFileSelect(file, type) ==
    /\ loadAudioFile(file, type)
    /\ UNCHANGED alerted

\* handleFileDrop(file, type)
handleFileDrop(file, type) ==
    IF file.audio
    THEN /\ loadAudioFile(file, type)
         /\ UNCHANGED alerted
    ELSE /\ alerted' = "Please drop an audio file"
         /\ UNCHANGED loadVars

\* What no part of a load touches
LoadStep ==
    /\ call' = "loadAudioFile"
    /\ UNCHANGED <<magA, magB, operation, result, calls, pureVars,
                   appOutputBuffer, progressText, playVars>>

\* What a part of a load that does not store a buffer leaves alone
SlotsKept ==
    UNCHANGED <<audioA, audioB, nameVars, audioBufferA, audioBufferB, framesA,
                framesB, outputFrames, outputBuffer, lastRun, outcome,
                idxTrace, writes, progress, logged>>

\* The load whose setTimeout(0) callback runs next is at the given await
TimerAt(pc) == timers # << >> /\ loads[Head(timers)].pc = pc

\* A file is chosen with one of the two file inputs
SelectFile ==
    /\ \E file \in LoadFiles, type \in Slots : handleFileSelect(file, type)
    /\ SlotsKept
    /\ LoadStep

\* A file is dropped on one of the two drop zones
DropFile ==
    /\ \E file \in LoadFiles, type \in Slots : handleFileDrop(file, type)
    /\ SlotsKept
    /\ LoadStep

\* Line 176: after the first yield the file is read
ReadFile ==
    /\ TimerAt("yieldToUI174")
    /\ loads' = [loads EXCEPT ![Head(timers)].pc = "arrayBuffer"]
    /\ timers' = Tail(timers)
    /\ UNCHANGED alerted
    /\ SlotsKept
    /\ LoadStep

\* Lines 178-182: file.arrayBuffer() resolved; 60% and the second yield
FileRead ==
    /\ \E id \in 1..Len(loads) :
          /\ loads[id].pc = "arrayBuffer"
          /\ loads' = [loads EXCEPT ![id].pc = "yieldToUI182"]
          /\ timers' = yieldToUI(timers, id)
    /\ UNCHANGED alerted
    /\ SlotsKept
    /\ LoadStep

\* Line 184: audioProcessor.loadAudioFile(arrayBuffer) is called and waits
\* for audioContext.resume(), if the context is suspended, and for
\* decodeAudioData
StartDecode ==
    /\ TimerAt("yieldToUI182")
    /\ loads' = [loads EXCEPT ![Head(timers)].pc = "decodeAudioData"]
    /\ timers' = Tail(timers)
    /\ UNCHANGED alerted
    /\ SlotsKept
    /\ LoadStep

\* Lines 185-191: decodeAudioData resolved; 80% and the third yield
Decoded ==
    /\ \E id \in 1..Len(loads) :
          /\ loads[id].pc = "decodeAudioData"
          /\ loads[id].file.decodable
          /\ loads' = [loads EXCEPT ![id].pc = "yieldToUI191"]
          /\ timers' = yieldToUI(timers, id)
    /\ UNCHANGED alerted
    /\ SlotsKept
    /\ LoadStep

\* Lines 246-250: decodeAudioData rejected; the catch block alerts
DecodeFails ==
    /\ \E id \in 1..Len(loads) :
          /\ loads[id].pc = "decodeAudioData"
          /\ ~loads[id].file.decodable
          /\ loads' = [loads EXCEPT ![id].pc = "failed"]
    /\ alerted' = "Error loading audio file. Please try another file."
    /\ UNCHANGED timers
    /\ SlotsKept
    /\ LoadStep

\* Lines 193-215: the decoded buffer and the file name are stored in the
\* slot of the load, the waveform is drawn, and the load yields again
Store ==
    /\ TimerAt("yieldToUI191")
    /\ LET id == Head(timers)
           load == loads[id]
       IN  /\ storeDecoded(load.type, Buffer(load.file.signal), load.file.name)
           /\ loads' = [loads EXCEPT ![id].pc = "yieldToUI215"]
           /\ timers' = yieldToUI(Tail(timers), id)
    /\ UNCHANGED alerted
    /\ LoadStep

\* Lines 217-221: 95% and the last yield
AnnounceSpectrogram ==
    /\ TimerAt("yieldToUI215")
    /\ loads' = [loads EXCEPT ![Head(timers)].pc = "yieldToUI221"]
    /\ timers' = yieldToUI(Tail(timers), Head(timers))
    /\ UNCHANGED alerted
    /\ SlotsKept
    /\ LoadStep

\* Lines 223-245: the spectrogram of the decoded buffer is computed and
\* drawn (performSTFT returns its frames and stores nothing), the process
\* button is enabled, 100%
Finish ==
    /\ TimerAt("yieldToUI221")
    /\ loads' = [loads EXCEPT ![Head(timers)].pc = "done"]
    /\ timers' = Tail(timers)
    /\ UNCHANGED alerted
    /\ SlotsKept
    /\ LoadStep

NextLoad ==
    \/ SelectFile
    \/ DropFile
    \/ ReadFile
    \/ FileRead
    \/ StartDecode
    \/ Decoded
    \/ DecodeFails
    \/ Store
    \/ AnnounceSpectrogram
    \/ Finish

SpecLoad == InitRun /\ [][NextLoad]_vars

-----------------------------------------------------------------------------
(* Properties *)

Bins(arr) == 1..Len(arr)

Values(arr) == {arr[i] : i \in Bins(arr)}

\* The largest and the smallest value of a non-empty array
Largest(arr) == CHOOSE m \in Values(arr) : \A x \in Values(arr) : RLe(x, m)
Smallest(arr) == CHOOSE m \in Values(arr) : \A x \in Values(arr) : RLe(m, x)

\* hop H = floor(N * (1 - O / 100)) of the run of performSTFT on its own
StftHop == (stft.N * (100 - stft.O)) \div 100

\* C1: performSTFT on a signal of length L with window N and hop H >= 1
\* returns floor((L - N) / H) + 1 frames when L >= N and none when L < N, and
\* frame i reads exactly the samples i*H .. i*H + N - 1, all inside the signal.
C1_FrameCount ==
    (stft.state = "returned" /\ StftHop >= 1) =>
        /\ Len(stft.starts) =
               (IF stft.L >= stft.N THEN (stft.L - stft.N) \div StftHop + 1 ELSE 0)
        /\ Len(stft.reads) = Len(stft.starts)
        /\ \A k \in 1..Len(stft.starts) :
               /\ stft.starts[k] = (k - 1) * StftHop
               /\ stft.reads[k] = ((k - 1) * StftHop)..((k - 1) * StftHop + stft.N - 1)
               /\ stft.reads[k] \subseteq 0..(stft.L - 1)

\* Overlapping frames, at least two of them, and trailing samples that no
\* frame covers.
C1_Witness ==
    /\ stft.state = "returned"
    /\ StftHop >= 1
    /\ StftHop < stft.N
    /\ Len(stft.starts) >= 2
    /\ (stft.L - stft.N) % StftHop # 0

\* C5: for equal-length arrays the elementwise operators return an array of
\* the same length whose bin i is min (and), max (or), |a - b| (xor), a * b
\* (multiply), (a + b) / 2 (average), max(0, a - b) (subtract).
BinIs(name, r, a, b) ==
    CASE name = "and" -> r \in {a, b} /\ RLe(r, a) /\ RLe(r, b)
      [] name = "or" -> r \in {a, b} /\ RLe(a, r) /\ RLe(b, r)
      [] name = "xor" -> RLe(Zero, r) /\ (RAdd(r, b) = a \/ RAdd(r, a) = b)
      [] name = "multiply" -> r.n * a.d * b.d = a.n * b.n * r.d
      [] name = "average" -> RAdd(r, r) = RAdd(a, b)
      [] name = "subtract" -> IF RLt(b, a) THEN RAdd(r, b) = a ELSE r = Zero

C5_Elementwise ==
    (call = "operator"
       /\ operation \in {"and", "or", "xor", "multiply", "average", "subtract"}) =>
        /\ result.kind = "array"
        /\ Len(result.val) = Len(magA)
        /\ \A i \in Bins(magA) : BinIs(operation, result.val[i], magA[i], magB[i])

\* subtract on two bins, one clamped to 0 and one not.
C5_Witness ==
    /\ call = "operator"
    /\ operation = "subtract"
    /\ Len(magA) = 2
    /\ RLt(magA[1], magB[1])
    /\ RLt(magB[2], magA[2])
    /\ result.val = << Zero, RSub(magA[2], magB[2]) >>

\* C6: for equal-length arrays, and(A, B)[i] <= or(A, B)[i] in every bin.
C6_AndLeOr ==
    /\ (call = "operator" /\ operation = "and") =>
           \A i \in Bins(magA) : RLe(result.val[i], or(magA, magB)[i])
    /\ (call = "operator" /\ operation = "or") =>
           \A i \in Bins(magA) : RLe(and(magA, magB)[i], result.val[i])

\* and() was called on arrays that are equal in one bin and differ in another.
C6_Witness ==
    /\ call = "operator"
    /\ operation = "and"
    /\ Len(magA) = 2
    /\ magA[1] = magB[1]
    /\ RLt(Zero, magA[1])
    /\ RLt(magB[2], magA[2])

\* C7: notA(A, B)[i] = max(A) - A[i] + min(B) and notB(A, B)[i] = max(B) - B[i]
\* + min(A), max and min taken over the whole non-negative array.
C7_Not ==
    /\ (call = "operator" /\ operation = "notA") =>
           /\ Len(result.val) = Len(magA)
           /\ \A i \in Bins(magA) :
                  result.val[i] = RAdd(RSub(Largest(magA), magA[i]), Smallest(magB))
    /\ (call = "operator" /\ operation = "notB") =>
           /\ Len(result.val) = Len(magA)
           /\ \A i \in Bins(magA) :
                  result.val[i] = RAdd(RSub(Largest(magB), magB[i]), Smallest(magA))

\* notA where A's maximum is not its first bin and B's minimum is positive and
\* not its first bin.
C7_Witness ==
    /\ call = "operator"
    /\ operation = "notA"
    /\ Len(magA) = 2
    /\ RLt(magA[1], magA[2])
    /\ RLt(magB[2], magB[1])
    /\ RLt(Zero, magB[2])

\* C8: aSquared(A, B)[i] = (A[i] / max(A))^2 * max(A) when max(A) > 0, so that
\* aSquared[i] * max(A) = A[i]^2 and aSquared[i] <= A[i]; every bin is 0 when
\* max(A) = 0, and the call does not fail.  bSquared is the same on B.
SquaredOf(arr, res) ==
    /\ Len(res) = Len(arr)
    /\ \A i \in Bins(arr) :
           IF RLt(Zero, Largest(arr))
           THEN /\ RMul(res[i], Largest(arr)) = RMul(arr[i], arr[i])
                /\ RLe(res[i], arr[i])
           ELSE res[i] = Zero

C9_UnknownFallsBack ==
    (call = "apply" /\ operation \notin Operators) =>
        result = Array(average(magA, magB))

\* The last process() got past its guard and its analysis of both inputs
\* returned (the analysis does not return when the hop is 0, see C17, C18)
Ran == lastRun # NoRun /\ outcome # "diverged"

\* The output frame process() builds from a frame of A and a frame of B:
\* the selected operator on the magnitudes (average for an unknown selector)
\* and the phase the mode selects.
BuiltFrom(frameA, frameB) ==
    [magnitude |->
         IF lastRun.operation \in Operators
         THEN Operator(lastRun.operation, frameA.magnitude, frameB.magnitude)
         ELSE average(frameA.magnitude, frameB.magnitude),
     phase |-> combinePhases(frameA.phase, frameB.phase, frameA.magnitude,
                             frameB.magnitude, lastRun.phaseMode)]

\* C2: with timeMatch false, process() produces exactly T = min(lenA, lenB)
\* output frames and output frame i is built from frame i of A and frame i
\* of B.
C2_OneToOne ==
    (Ran /\ ~lastRun.timeMatch) =>
        /\ Len(outputFrames) = Min(Len(framesA), Len(framesB))
        /\ Len(idxTrace) = Len(outputFrames)
        /\ \A k \in 1..Len(outputFrames) :
               /\ idxTrace[k] = [a |-> k - 1, b |-> k - 1]
               /\ outputFrames[k] = BuiltFrom(framesA[k], framesB[k])

\* A returned run without time matching on inputs of different frame counts,
\* whose first two output frames come from different frames of A.
C2_Witness ==
    /\ Ran
    /\ ~lastRun.timeMatch
    /\ outcome = "returned"
    /\ Len(framesA) > Len(framesB)
    /\ Len(outputFrames) >= 2
    /\ framesA[1] # framesA[2]
    /\ outputFrames[1] # outputFrames[2]

\* T = ceil((lenA + lenB) / 2) of the last run
AlignedTarget == (Len(framesA) + Len(framesB) + 1) \div 2

\* min(floor(i * len / T), len - 1)
AlignedIndex(i, len) == Min((i * len) \div AlignedTarget, len - 1)

\* C3: with timeMatch true, process() produces exactly T = ceil((lenA+lenB)/2)
\* output frames, and output frame i is built from A's frame
\* min(floor(i*lenA/T), lenA-1) and B's frame min(floor(i*lenB/T), lenB-1).
C3_TimeAligned ==
    (Ran /\ lastRun.timeMatch) =>
        /\ Len(outputFrames) = AlignedTarget
        /\ \A k \in 1..Len(outputFrames) :
               outputFrames[k] =
                   BuiltFrom(framesA[AlignedIndex(k - 1, Len(framesA)) + 1],
                             framesB[AlignedIndex(k - 1, Len(framesB)) + 1])

\* C4: with timeMatch true, for all frame counts and every output index the
\* selected indices are valid source indices and both are non-decreasing in
\* the output index.
C4_IndicesValid ==
    (Ran /\ lastRun.timeMatch) =>
        /\ \A k \in 1..Len(idxTrace) :
               /\ idxTrace[k].a \in 0..(Len(framesA) - 1)
               /\ idxTrace[k].b \in 0..(Len(framesB) - 1)
        /\ \A k \in 2..Len(idxTrace) :
               /\ idxTrace[k - 1].a <= idxTrace[k].a
               /\ idxTrace[k - 1].b <= idxTrace[k].b

\* C10: in phase mode 'a' the phase of every output frame equals, bin for
\* bin, the phase of the selected A frame; in mode 'b' that of the selected B
\* frame, whatever the magnitudes and the operator.
C10_PhaseVerbatim ==
    /\ (Ran /\ lastRun.phaseMode = "a") =>
           \A k \in 1..Len(outputFrames) :
               outputFrames[k].phase = framesA[idxTrace[k].a + 1].phase
    /\ (Ran /\ lastRun.phaseMode = "b") =>
           \A k \in 1..Len(outputFrames) :
               outputFrames[k].phase = framesB[idxTrace[k].b + 1].phase

\* A time-matched run in mode 'b' with an output frame whose two source
\* frames differ in phase and in magnitude.
C10_Witness ==
    /\ Ran
    /\ lastRun.phaseMode = "b"
    /\ lastRun.timeMatch
    /\ outcome = "returned"
    /\ \E k \in 1..Len(outputFrames) :
           /\ idxTrace[k].a # idxTrace[k].b
           /\ framesA[idxTrace[k].a + 1].phase # framesB[idxTrace[k].b + 1].phase
           /\ framesA[idxTrace[k].a + 1].magnitude
                  # framesB[idxTrace[k].b + 1].magnitude

\* C11: in phase mode 'average', every bin of every output frame is
\* phaseA * w + phaseB * (1 - w) with w = magA / (magA + magB) when
\* magA + magB > 0, and then lies between the two phases; it is
\* (phaseA + phaseB) / 2 otherwise.  phaseA, magA, phaseB, magB are those of
\* the selected frames of A and B.
WeightedPhase(pA, pB, mA, mB) ==
    IF RLt(Zero, RAdd(mA, mB))
    THEN LET w == RDiv(mA, RAdd(mA, mB))
         IN  RAdd(RMul(pA, w), RMul(pB, RSub(R(1), w)))
    ELSE RDiv(RAdd(pA, pB), R(2))

C11_WeightedAverage ==
    (Ran /\ lastRun.phaseMode = "average") =>
        \A k \in 1..Len(outputFrames) :
            LET fA == framesA[idxTrace[k].a + 1]
                fB == framesB[idxTrace[k].b + 1]
                out == outputFrames[k].phase
            IN  /\ Len(out) = Len(fA.phase)
                /\ \A i \in Bins(out) :
                       /\ out[i] = WeightedPhase(fA.phase[i], fB.phase[i],
                                                 fA.magnitude[i], fB.magnitude[i])
                       /\ RLe(RMin(fA.phase[i], fB.phase[i]), out[i])
                       /\ RLe(out[i], RMax(fA.phase[i], fB.phase[i]))

\* A run in mode 'average' with one output bin whose sources differ in phase
\* and have unequal positive magnitudes, and another whose sources are both
\* silent.
C11_Witness ==
    /\ Ran
    /\ lastRun.phaseMode = "average"
    /\ outcome = "returned"
    /\ \E k \in 1..Len(outputFrames) :
           LET fA == framesA[idxTrace[k].a + 1]
               fB == framesB[idxTrace[k].b + 1]
           IN  /\ fA.phase[1] # fB.phase[1]
               /\ RLt(Zero, fA.magnitude[1])
               /\ RLt(fA.magnitude[1], fB.magnitude[1])
               /\ outputFrames[k].phase[1] \notin {fA.phase[1], fB.phase[1]}
    /\ \E k \in 1..Len(outputFrames) :
           /\ framesA[idxTrace[k].a + 1].magnitude[1] = Zero
           /\ framesB[idxTrace[k].b + 1].magnitude[1] = Zero

\* The hop H = floor(windowSize * (1 - overlapPercent / 100)) of the last run
RunHop == (lastRun.windowSize * (100 - lastRun.overlapPercent)) \div 100

\* The last process() reached its call of resynthesize
Resynthesized == Ran /\ outcome \in {"returned", "NotSupportedError", "RangeError"}

Samples == {outputBuffer.data[p] : p \in 1..Len(outputBuffer.data)}

\* C13: the signal resynthesize returns is either silent, and then all its
\* samples are 0 as before the scaling, or its largest absolute sample value
\* is 0.95 and no sample exceeds it.
C13_PeakScaled ==
    (Ran /\ outcome = "returned") =>
        \/ \A x \in Samples : x = Zero
        \/ /\ \E x \in Samples : RAbs(x) = Rat(19, 20)
           /\ \A x \in Samples : RLe(RAbs(x), Rat(19, 20))

\* A returned signal with a sample at the peak, a quieter non-zero sample and
\* a negative one.
C13_Witness ==
    /\ Ran
    /\ outcome = "returned"
    /\ \E x, y, z \in Samples :
           /\ RAbs(x) = Rat(19, 20)
           /\ RLt(Zero, RAbs(y))
           /\ RLt(RAbs(y), Rat(19, 20))
           /\ RLt(z, Zero)

\* n is a power of two (1, 2, 4, ...)
RECURSIVE IsPowerOfTwo(_)
IsPowerOfTwo(n) == n = 1 \/ (n > 1 /\ n % 2 = 0 /\ IsPowerOfTwo(n \div 2))

\* C14: for a real array x whose length is a power of two, fft followed by
\* ifft in place leaves x in the real part and 0 in every imaginary bin.
C14_RoundTrip ==
    (xform.state = "roundtrip" /\ IsPowerOfTwo(Len(xform.x))) =>
        /\ xform.real = xform.x
        /\ xform.imag = [k \in 1..Len(xform.x) |-> Zero]

\* A round trip of four samples, not all equal, through a spectrum that
\* differs from the signal and has a non-zero imaginary bin.
C14_Witness ==
    /\ xform.state = "roundtrip"
    /\ Len(xform.x) = 4
    /\ xform.x[2] # xform.x[4]
    /\ xform.spectrum.real # xform.x
    /\ xform.spectrum.imag[2] # Zero

\* C15: fft and ifft called on arrays whose length is not a power of two fail
\* with an error; they do not return a result.
C15_RejectsNonPowerOfTwo ==
    (xform.state \in {"fft", "roundtrip"} /\ ~IsPowerOfTwo(Len(xform.x))) =>
        xform.error # "none"

\* C16: process() called while input A or input B is not set fails with
\* 'Both audio files must be loaded', reports no progress, and leaves
\* framesA, framesB, outputFrames and outputBuffer as they were.
C16_MissingInputRejected ==
    [][(/\ calls' = calls + 1
        /\ call' = "process"
        /\ ~(audioBufferA.loaded /\ audioBufferB.loaded)) =>
           (/\ outcome' = "Both audio files must be loaded"
            /\ progress' = << >>
            /\ UNCHANGED <<framesA, framesB, outputFrames, outputBuffer>>)]_vars

\* process() was called with A set and B not, and was rejected.
C16_Witness ==
    /\ call = "process"
    /\ audioBufferA.loaded
    /\ ~audioBufferB.loaded
    /\ outcome = "Both audio files must be loaded"

\* C17: process() with overlapPercent >= 100 ends with an error before any
\* analysis: it neither returns a buffer nor runs without end, and reports
\* no progress.
C17_OverlapRejected ==
    (call = "process" /\ lastRun # NoRun /\ lastRun.overlapPercent >= 100) =>
        /\ outcome \notin {"returned", "diverged"}
        /\ progress = << >>

\* C18: for a power-of-two windowSize and an integer overlapPercent in
\* 0..99 the hop is >= 1, performSTFT returns, and the frame offsets
\* strictly increase.
C18_HopPositive ==
    (stft.state # "idle" /\ IsPowerOfTwo(stft.N) /\ stft.O \in 0..99) =>
        /\ hopSize(stft.N, stft.O) >= 1
        /\ stft.state = "returned"
        /\ \A k \in 2..Len(stft.starts) : stft.starts[k - 1] < stft.starts[k]

\* The unsigned little-endian number in the 2 or 4 bytes of the file at
\* byte offset off
LE16(off) == wav.bytes[off + 1] + 256 * wav.bytes[off + 2]
LE32(off) == LE16(off) + 65536 * LE16(off + 2)

\* The four bytes of the file at byte offset off
Tag(off) == << wav.bytes[off + 1], wav.bytes[off + 2],
               wav.bytes[off + 3], wav.bytes[off + 4] >>

\* C19: exportToWAV of a buffer with F sample frames and C channels gives
\* exactly 44 + 2*F*C bytes, with the header 'RIFF', size - 8, 'WAVE',
\* 'fmt ', 16, 1, C, sample rate, sampleRate*C*2, C*2, 16, 'data', 2*F*C, the
\* numbers little-endian.
C19_WavHeader ==
    wav.state = "exported" =>
        LET C == wav.numberOfChannels
            F == wav.length
        IN  /\ Len(wav.bytes) = 44 + 2 * F * C
            /\ \A q \in 1..Len(wav.bytes) : wav.bytes[q] \in 0..255
            /\ Tag(0) = << 82, 73, 70, 70 >>
            /\ LE32(4) = Len(wav.bytes) - 8
            /\ Tag(8) = << 87, 65, 86, 69 >>
            /\ Tag(12) = << 102, 109, 116, 32 >>
            /\ LE32(16) = 16
            /\ LE16(20) = 1
            /\ LE16(22) = C
            /\ LE32(24) = wav.sampleRate
            /\ LE32(28) = wav.sampleRate * C * 2
            /\ LE16(32) = C * 2
            /\ LE16(34) = 16
            /\ Tag(36) = << 100, 97, 116, 97 >>
            /\ LE32(40) = 2 * F * C

\* A stereo buffer of two frames at 44100 Hz was exported.
C19_Witness ==
    /\ wav.state = "exported"
    /\ wav.numberOfChannels = 2
    /\ wav.length = 2
    /\ wav.sampleRate = 44100
    /\ Len(wav.bytes) = 52

\* The signed 16-bit little-endian number at byte offset off
SLE16(off) == IF LE16(off) >= 32768 THEN LE16(off) - 65536 ELSE LE16(off)

\* v is x truncated toward zero
IsTruncOf(v, x) ==
    /\ v * x.n >= 0
    /\ IAbs(v) * x.d <= IAbs(x.n)
    /\ IAbs(x.n) < (IAbs(v) + 1) * x.d

\* The sample clamped to [-1, 1]
Clamped(x) == IF RLt(R(1), x) THEN R(1) ELSE IF RLt(x, R(-1)) THEN R(-1) ELSE x

\* C20: sample i of channel c is stored as a signed 16-bit little-endian
\* number at byte offset 44 + 2*(i*C + c); the number is the sample clamped
\* to [-1, 1] times 32767, cut to an integer, and lies in -32767..32767.
C20_WavSamples ==
    wav.state = "exported" =>
        \A i \in 0..(wav.length - 1), c \in 0..(wav.numberOfChannels - 1) :
            LET v == SLE16(44 + 2 * (i * wav.numberOfChannels + c))
                x == wav.channels[c + 1][i + 1]
            IN  /\ v \in -32767..32767
                /\ IsTruncOf(v, RMul(Clamped(x), R(32767)))

\* A stereo export whose first frame holds a sample above full scale and a
\* negative fraction, and whose second frame holds one below -1.
C20_Witness ==
    /\ wav.state = "exported"
    /\ wav.numberOfChannels = 2
    /\ wav.length = 2
    /\ wav.channels[1][1] = R(3)
    /\ wav.channels[2][1] = Rat(-1, 2)
    /\ wav.channels[1][2] = R(-2)
    /\ SLE16(44) = 32767
    /\ SLE16(46) = -16383
    /\ SLE16(48) = -32767

\* C21: in a processing run started by processAudio that came to its end,
\* every percentage shown is an integer in 0..100, the percentages shown
\* never decrease, and the last one shown is 100.
C21_ProgressMonotone ==
    (call = "processAudio" /\ outcome = "returned") =>
        /\ \A k \in 1..Len(progressText) : progressText[k] \in 0..100
        /\ \A k \in 1..(Len(progressText) - 1) :
               progressText[k] <= progressText[k + 1]
        /\ progressText[Len(progressText)] = 100

\* The process() call last made came to an end, by a return or by a throw
\* after its guard
Completed == outcome \in {"returned", "TypeError", "RangeError", "NotSupportedError"}

\* The frame loop of a processor that has not run before, on the given
\* analysis frames
FirstLoop(fA, fB, run) ==
    FrameLoop(0, targetFrames(Len(fA), Len(fB), run.timeMatch), fA, fB,
              run.operation, run.phaseMode, run.timeMatch,
              [frames |-> << >>, trace |-> << >>, logged |-> "false",
               threw |-> FALSE, progress |-> << >>])

\* C22: whatever runs came before, the frames a process() call leaves and
\* the signal it returns are those a processor that never ran computes from
\* the two inputs now set and the arguments of the call.
C22_HistoryIndependent ==
    (call = "processAudio" /\ Completed) =>
        \E fA \in {performSTFT(audioBufferA.data, lastRun.windowSize,
                               lastRun.overlapPercent)},
           fB \in {performSTFT(audioBufferB.data, lastRun.windowSize,
                               lastRun.overlapPercent)} :
        \E first \in {FirstLoop(fA, fB, lastRun)} :
            /\ framesA = fA
            /\ framesB = fB
            /\ outputFrames = first.frames
            /\ outcome = "returned" =>
                   /\ ~first.threw
                   /\ outputBuffer = resynthesize(first.frames, lastRun.windowSize,
                                                  lastRun.overlapPercent).buffer
                   /\ appOutputBuffer = outputBuffer

\* A run that returned frames and a signal on a page where an earlier run
\* had failed (its alert is still the last one)
C22_Witness ==
    /\ call = "processAudio"
    /\ outcome = "returned"
    /\ alerted = "Error processing audio"
    /\ Len(outputFrames) >= 2
    /\ ~outputBuffer.isNull

\* C23: a processAudio step leaves the samples of both inputs as they were,
\* and when its process() call has completed, resynthesis included, the
\* analysis frames still hold the magnitudes and phases that the analysis of
\* the inputs produced, also where an output frame holds the phase array of
\* a source frame (modes 'a' and 'b').
C23_InputsAndFramesKept ==
    [][call' = "processAudio" =>
          /\ audioBufferA' = audioBufferA
          /\ audioBufferB' = audioBufferB
          /\ Completed' =>
                /\ framesA' = performSTFT(audioBufferA.data, lastRun'.windowSize,
                                          lastRun'.overlapPercent)
                /\ framesB' = performSTFT(audioBufferB.data, lastRun'.windowSize,
                                          lastRun'.overlapPercent)]_vars

\* A run in mode 'a' that was resynthesized from two or more output frames,
\* one of which holds a source phase array with a phase of pi in it
C23_Witness ==
    /\ call = "processAudio"
    /\ outcome = "returned"
    /\ lastRun.phaseMode = "a"
    /\ Len(outputFrames) >= 2
    /\ ~outputBuffer.isNull
    /\ \E i \in 1..Len(outputFrames) :
           /\ outputFrames[i].phase = framesA[idxTrace[i].a + 1].phase
           /\ outputFrames[i].phase[1] = R(1)

\* The reversal of the lowest bits binary digits of i
RECURSIVE BitRev(_, _)
BitRev(i, bits) ==
    IF bits = 0 THEN 0
    ELSE (i % 2) * Pow2(bits - 1) + BitRev(i \div 2, bits - 1)

Log2(n) == CHOOSE e \in 0..MaxLog2 : Pow2(e) = n

\* The permutation loop of fft has been left
Permuted == fftRun.pc \in {"stage", "block", "butterfly", "returned"} /\ fftRun.n >= 2

\* C24: for a power-of-two N >= 2, after the bit-reversal stage real[i] and
\* imag[i] are the elements first stored at bitrev(i); every pair
\* {i, bitrev(i)} of different indices was swapped exactly once, nothing
\* else was swapped, and no fixed point took part in a swap.
C24_BitReversed ==
    Permuted =>
        LET n == fftRun.n
            rev(i) == BitRev(i, Log2(n))
            SwapsOf(i) == {p \in 1..Len(fftRun.swaps) :
                              i \in {fftRun.swaps[p][1], fftRun.swaps[p][2]}}
        IN  /\ \A i \in 0..(n - 1) :
                   /\ fftRun.real[i + 1] = RealLabel(rev(i))
                   /\ fftRun.imag[i + 1] = ImagLabel(rev(i))
                   /\ Cardinality(SwapsOf(i)) = IF rev(i) = i THEN 0 ELSE 1
            /\ \A p \in 1..Len(fftRun.swaps) :
                   fftRun.swaps[p][2] = rev(fftRun.swaps[p][1])

\* Eight elements permuted: 1 <-> 4 and 3 <-> 6 swapped, 0, 2, 5, 7 in place
C24_Witness ==
    /\ fftRun.pc = "stage"
    /\ fftRun.n = 8
    /\ fftRun.swaps = << <<1, 4>>, <<3, 6>> >>
    /\ fftRun.real = <<0, 4, 2, 6, 1, 5, 3, 7>>
    /\ fftRun.imag = <<-1, -5, -3, -7, -2, -6, -4, -8>>

\* C25: when performIFFT calls ifft on a half-spectrum of M bins, the arrays
\* of N = 2M bins hold real[N-k] = real[k] and imag[N-k] = -imag[k] for
\* k = 1..M-1, bins 0..M-1 hold magnitude * cos(phase) and magnitude *
\* sin(phase) (bin 0 has no mirror image), and bin N/2 holds 0.
C25_HermitianMirror ==
    spectrum.state = "built" =>
        LET M == Len(spectrum.magnitude)
            N == 2 * M
            real(k) == spectrum.real[k + 1]
            imag(k) == spectrum.imag[k + 1]
        IN  /\ Len(spectrum.real) = N
            /\ Len(spectrum.imag) = N
            /\ \A k \in 1..(M - 1) :
                   /\ real(N - k) = real(k)
                   /\ imag(N - k) = RNeg(imag(k))
            /\ \A k \in 0..(M - 1) :
                   /\ real(k) = RMul(spectrum.magnitude[k + 1],
                                     CosPi(spectrum.phase[k + 1]))
                   /\ imag(k) = RMul(spectrum.magnitude[k + 1],
                                     SinPi(spectrum.phase[k + 1]))
            /\ real(M) = Zero
            /\ imag(M) = Zero

\* Four bins, of which bin 0 and bin 1 have a non-zero imaginary part: bin 0
\* (2 at phase pi/2) stays 2i with no image, bin 1 (2 at -pi/6) is mirrored
\* into bin 7 with its imaginary part negated.
C25_Witness ==
    /\ spectrum.state = "built"
    /\ Len(spectrum.magnitude) = 4
    /\ spectrum.magnitude[1] = R(2)
    /\ spectrum.phase[1] = Rat(1, 2)
    /\ spectrum.imag[1] = R(2)
    /\ spectrum.phase[2] = Rat(-1, 6)
    /\ spectrum.real[2] = Surd(0, 1, 1)
    /\ spectrum.imag[2] = R(-1)
    /\ spectrum.real[8] = Surd(0, 1, 1)
    /\ spectrum.imag[8] = R(1)
    /\ spectrum.imag[5] = Zero

\* C26: process() called with a hop of at least 1 on two all-zero inputs
\* that each hold at least one window returns, for every operator and phase
\* mode, a buffer of (F - 1) * hop + windowSize samples that are all 0: no
\* sample is NaN from a division by a zero window sum or a zero peak.
C26_SilenceIsNoError ==
    LET silent(buffer) == \A p \in 1..Len(buffer.data) : buffer.data[p] = Zero
    IN  ( /\ lastRun # NoRun
          /\ silent(audioBufferA)
          /\ silent(audioBufferB)
          /\ Len(audioBufferA.data) >= lastRun.windowSize
          /\ Len(audioBufferB.data) >= lastRun.windowSize
          /\ hopSize(lastRun.windowSize, lastRun.overlapPercent) >= 1 ) =>
            /\ outcome = "returned"
            /\ Len(outputFrames) >= 1
            /\ outputBuffer.length =
                   (Len(outputFrames) - 1)
                       * hopSize(lastRun.windowSize, lastRun.overlapPercent)
                   + lastRun.windowSize
            /\ Len(outputBuffer.data) = outputBuffer.length
            /\ \A p \in 1..outputBuffer.length : outputBuffer.data[p] = Zero

\* A run of aSquared in mode 'average' with window 2 and overlap 50 on two
\* silent inputs of four samples: three output frames of zero magnitude,
\* resynthesized to four samples of which the first lies under a window sum
\* of 0 (the Hann window of size 2 is 0, 1)
C26_Witness ==
    /\ outcome = "returned"
    /\ lastRun.operation = "aSquared"
    /\ lastRun.phaseMode = "average"
    /\ lastRun.windowSize = 2
    /\ lastRun.overlapPercent = 50
    /\ audioBufferA.data = Silence(4)
    /\ audioBufferB.data = Silence(4)
    /\ Len(outputFrames) = 3
    /\ outputFrames[2].magnitude = << Zero >>
    /\ writes[1] = {0, 1}
    /\ outputBuffer.data = Silence(4)

\* C27: on arrays of a power-of-two length N >= 1, every index at which fft
\* reads or writes real and imag, in the swaps (i, j) and in the butterflies
\* (u, v = u + len/2), lies in 0..N-1, and fft returns.
C27_TerminatesInBounds ==
    /\ [](fftRun.indices \subseteq 0..(fftRun.n - 1))
    /\ <>(fftRun.pc = "returned")

\* fft has returned from sixteen elements having used every index 0..15
C27_Witness ==
    /\ fftRun.pc = "returned"
    /\ fftRun.n = 16
    /\ fftRun.len = 32
    /\ fftRun.indices = 0..15

\* C28: whenever no process() call is under way, either no run has succeeded
\* and the output buffer is null, or the output buffer is the signal
\* resynthesized from the current outputFrames with the configuration of the
\* last run, (outputFrames.length - 1) * hop + windowSize samples long.
C28_OutputMatchesFrames ==
    outcome # "diverged" =>
        \/ outputBuffer.isNull
        \/ /\ outputBuffer.length =
                  (Len(outputFrames) - 1)
                      * hopSize(lastRun.windowSize, lastRun.overlapPercent)
                  + lastRun.windowSize
           /\ outputBuffer = resynthesize(outputFrames, lastRun.windowSize,
                                          lastRun.overlapPercent).buffer

\* The sources that are playing
Playing == {id \in 1..Len(sources) : sources[id].state = "playing"}

\* C29: at most one source is playing; a playing source is the one held in
\* currentSource, with its type in currentPlayingType; the two fields are
\* null together, and when they are not, currentSource is a source of that
\* type that is playing or has just played to its end.  So no 'ended'
\* callback of an earlier source has cleared the fields of a playing one.
C29_OnePlayingSource ==
    /\ Cardinality(Playing) <= 1
    /\ \A id \in Playing :
           /\ currentSource = id
           /\ currentPlayingType = sources[id].type
    /\ (currentSource = 0) <=> (currentPlayingType = "null")
    /\ currentSource # 0 =>
           /\ sources[currentSource].state \in {"playing", "finished"}
           /\ sources[currentSource].type = currentPlayingType

\* What the page shows for a slot: App.audioX, audioProcessor.audioBufferX and
\* the text of fileNameX
Slot(type) ==
    IF type = "A"
    THEN [audio |-> audioA, audioBuffer |-> audioBufferA, name |-> fileNameA]
    ELSE [audio |-> audioB, audioBuffer |-> audioBufferB, name |-> fileNameB]

Holds(type, file) ==
    Slot(type) = [audio |-> Buffer(file.signal),
                  audioBuffer |-> Buffer(file.signal), name |-> file.name]

\* C30: when a file is chosen for a slot while an earlier load for the same
\* slot is still running, and both loads have run to their end, the slot
\* holds the file chosen last: App.audioX, audioProcessor.audioBufferX and
\* the file name shown are those of that file
C30_LaterFileWins ==
    \A i, j \in 1..Len(loads) :
        ( /\ i < j
          /\ loads[i].type = loads[j].type
          /\ i \in loads[j].pending
          /\ loads[i].pc = "done"
          /\ loads[j].pc = "done"
          /\ \A k \in 1..Len(loads) : k > j => loads[k].type # loads[j].type )
        => Holds(loads[j].type, loads[j].file)

=============================================================================
